---------------------------- MODULE Spec2Model ----------------------------
(***************************************************************************)
(* Model of forever-message-ipfs: the StateTracker (in-memory counters and *)
(* the current IPFS hash of every bottle), IPFSCountSync.syncBottleCounts  *)
(* (tracker -> IPFS -> contract -> tracker) and the part of IPFSService    *)
(* that syncBottleCounts runs through (updateBottleCounts, getItem, the    *)
(* cache, uploadJSON), together with initialize, login and the uploads,    *)
(* the ForeverManager's promotion and the BottleManager's likeBottle,      *)
(* unlikeBottle and addComment.                                            *)
(*                                                                         *)
(* Every `await` on the network (the gateway fetch, the upload, the        *)
(* contract transaction) is a point where other calls interleave, and so   *)
(* is updateBottleCounts' await of the promise getItem returns; each is    *)
(* the boundary between two actions of a call.                             *)
(***************************************************************************)
EXTENDS Integers, Sequences, FiniteSets, TLC

VARIABLES
    bottles,      \* StateTracker.bottles : Map<number, BottleState>
    last,         \* the method that has just returned: its arguments and its outcome
    tracing,      \* what last records: "tracker" (the StateTracker's own methods),
                  \* "retry" (the hashes of the last syncBottleCounts, kept until the next)
    initialized,  \* IPFSService.initialized
    client,       \* IPFSService.client is set (non-null)
    cache,        \* IPFSService.cache : Map<cid, CacheEntry>
    now,          \* Date.now()
    ledgerPtr,    \* the contract's stored IPFS hash of every bottle
    isForever,    \* the contract's isForever flag of every bottle
    thresholds,   \* ForeverManager.thresholds
    defaultInstance,  \* the module's defaultInstance: null or an IPFSService
    instances,    \* the IPFSService objects createIPFSService has constructed: their configs
    engagements,  \* the contract's record of every bottle: the likeBottle, unlikeBottle
                  \* and addComment transactions mined for it, counted
    calls         \* the IPFSCountSync / IPFSService calls in flight, one record per caller

vars ==
    <<bottles, last, tracing, initialized, client, cache, now, ledgerPtr, calls, isForever,
      thresholds, defaultInstance, instances, engagements>>

\* What the methods of the StateTracker, the IPFSService, the IPFSCountSync
\* and the ForeverManager never write.
Rest == <<tracing, thresholds, defaultInstance, instances, engagements>>

---------------------------------------------------------------------------
(* Bounds and universes *)

\* Counters are capped in the guards of the increments and in load's inputs.
MaxCount == 2

\* Bottle ids known to the contract.
Ids == {1, 2}

\* Callers that can have a call in flight at the same time.
Procs == {1, 2}

Counts == 0 .. MaxCount

\* The counts a caller loads a bottle with when calls are in flight around it;
\* the counts in between come from the increments and decrements.
LoadCounts == {0, MaxCount}

NotLoaded == [loaded |-> FALSE, likeCount |-> 0, commentCount |-> 0, currentIpfsHash |-> 0]

Max(a, b) == IF a >= b THEN a ELSE b

---------------------------------------------------------------------------
(* The content-addressed store.  A cid is derived from the bytes uploaded: *)
(* equal items have equal cids and different items different cids, and the *)
(* item behind a cid never changes.  Whether the gateway finds a cid is up *)
(* to the network.                                                         *)

Undef == 0 - 1

\* What typeof gives for the parsed JSON and for the fields validateItem
\* looks at, in an item as uploadBottle writes it.
WellTyped ==
    [data |-> "object", message |-> "string", userId |-> "string",
     timestamp |-> "number", bottleId |-> "undefined"]

\* The JSON of a bottle: base stands for message, userId, timestamp, createdAt.
BottleItem(b, l, c) ==
    [type |-> "bottle", base |-> b, likeCount |-> l, commentCount |-> c,
     typeOf |-> WellTyped]

\* uploadComment's item: no likeCount / commentCount fields, and a bottleId.
CommentItem ==
    [type |-> "comment", base |-> 0, likeCount |-> Undef, commentCount |-> Undef,
     typeOf |-> [WellTyped EXCEPT !.bottleId = "number"]]

\* No item at all (no JSON has been parsed).
NoItem == [type |-> "none", base |-> 0, likeCount |-> Undef, commentCount |-> Undef]

\* JSON under some cid that validateItem rejects: its type is neither
\* "bottle" nor "comment".
BadItem ==
    [type |-> "other", base |-> 0, likeCount |-> Undef, commentCount |-> Undef,
     typeOf |-> WellTyped]

\* More JSON that validateItem rejects: a number in place of an object, a
\* bottle whose message is a number, a bottle with no userId, a bottle whose
\* timestamp is a string, and a comment with no bottleId.
Malformed ==
    <<[type |-> "none", base |-> 0, likeCount |-> Undef, commentCount |-> Undef,
       typeOf |-> [data |-> "number", message |-> "undefined", userId |-> "undefined",
                   timestamp |-> "undefined", bottleId |-> "undefined"]],
      [BottleItem(0, 0, 0) EXCEPT !.typeOf.message = "number"],
      [BottleItem(0, 0, 0) EXCEPT !.typeOf.userId = "undefined"],
      [BottleItem(0, 0, 0) EXCEPT !.typeOf.timestamp = "string"],
      [CommentItem EXCEPT !.typeOf.bottleId = "undefined"]>>

NoCid == 0

CommentCid == 1

BadCid == 2

CidOf(item) ==
    IF \E i \in DOMAIN Malformed : Malformed[i] = item
    THEN BadCid + (CHOOSE i \in DOMAIN Malformed : Malformed[i] = item)
    ELSE IF item.type = "comment" THEN CommentCid
    ELSE IF item.type = "other" THEN BadCid
    ELSE 3 + (item.base * (MaxCount + 1) + item.likeCount) * (MaxCount + 1) + item.commentCount

BottleItems == { BottleItem(b, l, c) : b \in Ids, l \in Counts, c \in Counts }

Items == BottleItems \cup {CommentItem, BadItem} \cup { Malformed[i] : i \in DOMAIN Malformed }

\* The cids of the malformed payloads.
MalformedCids == { CidOf(Malformed[i]) : i \in DOMAIN Malformed }

Cids == { CidOf(it) : it \in Items }

\* The store: the item behind every cid.
ItemTable == [cid \in Cids |-> CHOOSE it \in Items : CidOf(it) = cid]

\* What the gateway serves under a cid.
ItemOf(cid) == ItemTable[cid]

\* The cid uploadBottle returned when bottle id was created (counts 0, 0).
InitCid(id) == CidOf(BottleItem(id, 0, 0))

\* Hashes a caller passes to load for bottle id: the bottle's first cid, or
\* (by mistake) the cid of a comment.
LoadHashes(id) == {InitCid(id), CommentCid}

\* IPFSService constructor: this.cacheExpirationMs = 5 * 60 * 1000
CacheExpirationMs == 5 * 60 * 1000

NoEntry == [present |-> FALSE, data |-> NoItem, timestamp |-> 0, expiresAt |-> 0]

IdleCall ==
    [op |-> "none", pc |-> "idle", id |-> 0, cid |-> NoCid,
     likeCount |-> 0, commentCount |-> 0, pre |-> NotLoaded,
     item |-> NoItem, newCid |-> NoCid, ledgerArg |-> NoCid,
     fetches |-> 0, uploads |-> 0, updates |-> 0, acked |-> FALSE,
     reads |-> 0, marks |-> 0,
     ptrAlone |-> TRUE, cacheAlone |-> TRUE, failedCid |-> NoCid,
     instance |-> 0, resetAlone |-> TRUE]

NoRet == 0 - 1

\* No method has just returned.  Of a thrown IPFSError, err is its code and
\* cause what its originalError is: nothing, a plain Error, or an IPFSError
\* with that code.
NoOp ==
    [op |-> "none", id |-> 0, h |-> NoCid, l |-> 0, c |-> 0, ret |-> NoRet, err |-> "",
     cause |-> ""]

---------------------------------------------------------------------------
(* StateTracker *)

Loaded(id) == bottles[id].loaded

\* get handing out a default entry for a bottle that is not in the map.
GetReturnsDefault(id) == FALSE

\* StateTracker.get: throws when the bottle is not in the map.
GetThrows(id) == ~Loaded(id)

\* load creating the map afresh around the one entry.
TrackerLoadClearsMap(bs, id, h, l, c) ==
    [b \in Ids |->
        IF b = id
        THEN [loaded |-> TRUE, likeCount |-> l, commentCount |-> c, currentIpfsHash |-> h]
        ELSE NotLoaded]

\* load leaving an entry that is already there (an `if (!this.bottles.has(id))`).
TrackerLoadKeepsExisting(bs, id, h, l, c) ==
    IF bs[id].loaded
    THEN bs
    ELSE [bs EXCEPT ![id] = [loaded |-> TRUE, likeCount |-> l, commentCount |-> c,
                             currentIpfsHash |-> h]]

TrackerLoad(bs, id, h, l, c) ==
    [bs EXCEPT ![id] = [loaded |-> TRUE, likeCount |-> l, commentCount |-> c,
                        currentIpfsHash |-> h]]

TrackerIncrementLikes(bs, id) ==
    [bs EXCEPT ![id].likeCount = @ + 1]

\* decrementLikes without the Math.max(0, ...).
TrackerDecrementLikesNoFloor(bs, id) ==
    [bs EXCEPT ![id].likeCount = @ - 1]

\* decrementLikes deleting the entry of a bottle left with no likes.
TrackerDecrementLikesDropsAtZero(bs, id) ==
    IF bs[id].likeCount <= 1
    THEN [bs EXCEPT ![id] = NotLoaded]
    ELSE [bs EXCEPT ![id].likeCount = @ - 1]

TrackerDecrementLikes(bs, id) ==
    [bs EXCEPT ![id].likeCount = Max(0, @ - 1)]

TrackerIncrementComments(bs, id) ==
    [bs EXCEPT ![id].commentCount = @ + 1]

\* updateIPFSHash storing a fresh entry around the new hash.
TrackerUpdateIPFSHashResets(bs, id, h) ==
    [bs EXCEPT ![id] = [loaded |-> TRUE, likeCount |-> 0, commentCount |-> 0,
                        currentIpfsHash |-> h]]

\* updateIPFSHash setting the hash of every loaded bottle.
TrackerUpdateIPFSHashAll(bs, id, h) ==
    [b \in Ids |-> IF bs[b].loaded THEN [bs[b] EXCEPT !.currentIpfsHash = h] ELSE bs[b]]

TrackerUpdateIPFSHash(bs, id, h) ==
    [bs EXCEPT ![id].currentIpfsHash = h]

Service == <<Rest, initialized, client, cache, now, ledgerPtr, isForever>>

\* A method returned ret or threw err.
Returned(op, id, h, l, c, ret, err) ==
    [NoOp EXCEPT !.op = op, !.id = id, !.h = h, !.l = l, !.c = c, !.ret = ret, !.err = err]

\* A StateTracker method called from outside returned ret or threw err.  When
\* retries are traced, last stays the outcome of the last syncBottleCounts.
Traced(op, id, h, l, c, ret, err) ==
    last' = IF "tracker" \in tracing THEN Returned(op, id, h, l, c, ret, err)
            ELSE IF "retry" \in tracing THEN last
            ELSE NoOp

\* The calls in flight on bottle id, other than p's, have had the bottle's
\* currentIpfsHash written under them.
Touch(cs, id, p) ==
    [q \in Procs |->
        IF q # p /\ cs[q].op = "sync" /\ cs[q].id = id
        THEN [cs[q] EXCEPT !.ptrAlone = FALSE]
        ELSE cs[q]]

Load(id, h, l, c) ==
    /\ bottles' = TrackerLoad(bottles, id, h, l, c)
    /\ Traced("load", id, h, l, c, NoRet, "")
    /\ calls' = Touch(calls, id, 0)
    /\ UNCHANGED Service

IncrementLikes(id) ==
    /\ IF GetThrows(id)
       THEN /\ Traced("incrementLikes", id, NoCid, 0, 0, NoRet, "NotLoaded")
            /\ UNCHANGED <<bottles, calls>>
       ELSE /\ bottles[id].likeCount < MaxCount
            /\ bottles' = TrackerIncrementLikes(bottles, id)
            /\ Traced("incrementLikes", id, NoCid, 0, 0, bottles'[id].likeCount, "")
            /\ UNCHANGED calls
    /\ UNCHANGED Service

DecrementLikes(id) ==
    /\ IF GetThrows(id)
       THEN /\ Traced("decrementLikes", id, NoCid, 0, 0, NoRet, "NotLoaded")
            /\ UNCHANGED <<bottles, calls>>
       ELSE /\ bottles' = TrackerDecrementLikes(bottles, id)
            /\ Traced("decrementLikes", id, NoCid, 0, 0, bottles'[id].likeCount, "")
            /\ UNCHANGED calls
    /\ UNCHANGED Service

IncrementComments(id) ==
    /\ IF GetThrows(id)
       THEN /\ Traced("incrementComments", id, NoCid, 0, 0, NoRet, "NotLoaded")
            /\ UNCHANGED <<bottles, calls>>
       ELSE /\ bottles[id].commentCount < MaxCount
            /\ bottles' = TrackerIncrementComments(bottles, id)
            /\ Traced("incrementComments", id, NoCid, 0, 0, bottles'[id].commentCount, "")
            /\ UNCHANGED calls
    /\ UNCHANGED Service

\* A direct call of StateTracker.updateIPFSHash.
UpdateIPFSHash(id, h) ==
    /\ IF GetThrows(id)
       THEN /\ Traced("updateIPFSHash", id, h, 0, 0, NoRet, "NotLoaded")
            /\ UNCHANGED <<bottles, calls>>
       ELSE /\ bottles' = TrackerUpdateIPFSHash(bottles, id, h)
            /\ Traced("updateIPFSHash", id, h, 0, 0, NoRet, "")
            /\ calls' = Touch(calls, id, 0)
    /\ UNCHANGED Service

\* A call of StateTracker.get from outside: the entry, or the throw.
Get(id) ==
    /\ IF GetThrows(id)
       THEN Traced("get", id, NoCid, 0, 0, NoRet, "NotLoaded")
       ELSE Traced("get", id, bottles[id].currentIpfsHash, bottles[id].likeCount,
                   bottles[id].commentCount, NoRet, "")
    /\ UNCHANGED <<bottles, calls>>
    /\ UNCHANGED Service

---------------------------------------------------------------------------
(* The StateTracker on its own: any sequence of its five methods. *)

\* The thresholds the ForeverManager is constructed with (100 likes and 4
\* comments when none are given), scaled to the counts of this model: the
\* likes can reach and pass theirs.
Thresholds == [likes |-> MaxCount - 1, comments |-> 1]

\* thresholds?.likes ?? 100 and thresholds?.comments ?? 4
DefaultLikes == 100

DefaultComments == 4

\* The constructor's thresholds argument: each of likes and comments is a
\* number or is missing (Undef), as both are when the argument is left out.
ThresholdArgs ==
    { [likes |-> l, comments |-> c] : l \in {Undef, Thresholds.likes},
                                      c \in {Undef, Thresholds.comments} }

\* A constructor that takes the argument only when it is complete.
ForeverManagerConstructorAllOrNothing(arg) ==
    IF arg.likes = Undef \/ arg.comments = Undef
    THEN [likes |-> DefaultLikes, comments |-> DefaultComments]
    ELSE arg

\* this.thresholds as the ForeverManager constructor sets it.
ForeverManagerConstructor(arg) ==
    [likes |-> IF arg.likes = Undef THEN DefaultLikes ELSE arg.likes,
     comments |-> IF arg.comments = Undef THEN DefaultComments ELSE arg.comments]

\* defaultInstance = null
NoInstance == 0

\* The contract has recorded nothing for a bottle.
NoEngagement == [likeBottle |-> 0, unlikeBottle |-> 0, addComment |-> 0]

\* The instances as constructed: an empty StateTracker, an IPFSService that
\* is not initialized, a ForeverManager given the thresholds arg, and the
\* contract with every bottle at its first hash and not forever.
Constructed(arg) ==
    /\ bottles = [id \in Ids |-> NotLoaded]
    /\ initialized = FALSE
    /\ client = FALSE
    /\ cache = [h \in Cids |-> NoEntry]
    /\ now = 0
    /\ ledgerPtr = [id \in Ids |-> InitCid(id)]
    /\ isForever = [id \in Ids |-> FALSE]
    /\ thresholds = ForeverManagerConstructor(arg)
    /\ defaultInstance = NoInstance
    /\ instances = <<>>
    /\ engagements = [id \in Ids |-> NoEngagement]
    /\ calls = [p \in Procs |-> IdleCall]

InitService ==
    /\ Constructed(Thresholds)
    /\ last = NoOp

InitTracker == InitService /\ tracing = {"tracker"}

TrackerNext ==
    \/ \E id \in Ids, l \in Counts, c \in Counts : \E h \in LoadHashes(id) : Load(id, h, l, c)
    \/ \E id \in Ids : IncrementLikes(id)
    \/ \E id \in Ids : DecrementLikes(id)
    \/ \E id \in Ids : IncrementComments(id)
    \/ \E id \in Ids : \E h \in LoadHashes(id) : UpdateIPFSHash(id, h)

SpecTracker == InitTracker /\ [][TrackerNext]_vars

---------------------------------------------------------------------------
(* IPFSService: initialize, the cache, getItem, updateBottleCounts *)

\* IPFSService.ensureInitialized throws NOT_INITIALIZED.
EnsureInitializedThrows == ~initialized \/ ~client

\* initialize without the early return of an initialized service.
InitializeNoEarlyReturn(outcome) ==
    /\ client' = (client \/ outcome # "createFails")
    /\ initialized' = (initialized \/ outcome = "ok")
    /\ last' = Returned("initialize", 0, NoCid, 0, 0, NoRet,
                        IF outcome = "ok" THEN "" ELSE "INIT_FAILED")
    /\ UNCHANGED <<bottles, Rest, cache, now, ledgerPtr, calls, isForever>>

\* IPFSService.initialize.  An initialized service returns at once.
\* Otherwise Client.create() can fail, and so can setCurrentSpace when a
\* spaceDID is configured; both are rethrown as INIT_FAILED, the second after
\* this.client has been assigned.  outcome is what the network would answer.
Initialize(outcome) ==
    /\ IF initialized
       THEN /\ UNCHANGED <<initialized, client>>
            /\ last' = Returned("initialize", 0, NoCid, 0, 0, NoRet, "")
       ELSE /\ client' = (client \/ outcome # "createFails")
            /\ initialized' = (outcome = "ok")
            /\ last' = Returned("initialize", 0, NoCid, 0, 0, NoRet,
                                IF outcome = "ok" THEN "" ELSE "INIT_FAILED")
    /\ UNCHANGED <<bottles, Rest, cache, now, ledgerPtr, calls, isForever>>

\* getFromCache taking an entry for expired from the instant expiresAt on.
CacheHitBeforeExpiresAt(cch, t, cid) == cch[cid].present /\ t < cch[cid].expiresAt

\* getFromCache returns the entry's data: it is there and now <= expiresAt.
CacheHit(cch, t, cid) == cch[cid].present /\ ~(t > cch[cid].expiresAt)

\* getFromCache emptying the cache when it finds an expired entry.
GetFromCacheClearsAll(cch, t, cid) ==
    IF cch[cid].present /\ t > cch[cid].expiresAt
    THEN [h \in DOMAIN cch |-> NoEntry]
    ELSE cch

\* getFromCache deletes the entry it finds expired.
GetFromCache(cch, t, cid) ==
    IF cch[cid].present /\ t > cch[cid].expiresAt
    THEN [cch EXCEPT ![cid] = NoEntry]
    ELSE cch

\* storeInCache leaving an entry that is already there as it is.
StoreInCacheKeepsFirst(cch, t, cid, data) ==
    IF cch[cid].present THEN cch
    ELSE [cch EXCEPT ![cid] = [present |-> TRUE, data |-> data, timestamp |-> t,
                               expiresAt |-> t + CacheExpirationMs]]

StoreInCache(cch, t, cid, data) ==
    [cch EXCEPT ![cid] = [present |-> TRUE, data |-> data, timestamp |-> t,
                          expiresAt |-> t + CacheExpirationMs]]

\* validateItem checking the type discriminator alone.
ValidItemTypeOnly(data) == data.type \in {"bottle", "comment"}

\* validateItem: an object; message a string; type "bottle" or "comment";
\* userId a string; timestamp a number; a comment's bottleId a number.
ValidItem(data) ==
    /\ data.typeOf.data = "object"
    /\ data.typeOf.message = "string"
    /\ data.type \in {"bottle", "comment"}
    /\ data.typeOf.userId = "string"
    /\ data.typeOf.timestamp = "number"
    /\ data.type = "comment" => data.typeOf.bottleId = "number"

\* The call c has returned (err = "") or thrown err to its caller; of a
\* promote call last keeps the number of markBottleAsForever requests it made,
\* of a getItem call the item it returned, by the hash of its content, of an
\* uploadBottle or uploadComment call the cid in its UploadResult.
Finished(c, err) ==
    Returned(IF c.op = "sync" THEN "syncBottleCounts"
             ELSE c.op,
             c.id,
             IF "retry" \in tracing THEN c.cid ELSE NoCid, 0, 0,
             IF c.op = "promote" THEN c.marks
             ELSE IF c.op = "getItem"
                  THEN (IF c.item = NoItem THEN NoRet ELSE CidOf(c.item))
             ELSE IF c.op \in {"uploadBottle", "uploadComment"}
                  THEN (IF c.newCid = NoCid THEN NoRet ELSE c.newCid)
             ELSE IF "retry" \in tracing THEN c.newCid ELSE NoRet,
             err)

Finish(p, c, err) ==
    /\ calls' = [calls EXCEPT ![p] = IdleCall]
    /\ last' = Finished(c, err)

\* updateBottleCounts up to its first await: ensureInitialized, then getItem,
\* which answers from the cache (updateBottleCounts still awaits the promise
\* getItem returns) or awaits fetch(url).
UpdateBottleCounts(p, c) ==
    IF EnsureInitializedThrows
    THEN /\ Finish(p, c, "NOT_INITIALIZED")
         /\ UNCHANGED cache
    ELSE IF CacheHit(cache, now, c.cid)
         THEN /\ calls' = [calls EXCEPT ![p] =
                     [c EXCEPT !.pc = "got", !.item = cache[c.cid].data]]
              /\ last' = NoOp
              /\ UNCHANGED cache
         ELSE /\ cache' = GetFromCache(cache, now, c.cid)
              /\ calls' = [calls EXCEPT ![p] = [c EXCEPT !.pc = "fetch", !.fetches = @ + 1]]
              /\ last' = NoOp

\* updateBottleCounts replacing the likeCount alone.
UpdateBottleCountsResumeLikesOnly(p) ==
    /\ calls[p].pc = "got"
    /\ LET c == calls[p]
       IN IF c.item.type # "bottle"
          THEN /\ Finish(p, c, "PARSE_FAILED")
               /\ UNCHANGED cache
          ELSE /\ cache' = [cache EXCEPT ![c.cid] = NoEntry]
               /\ calls' = [calls EXCEPT ![p] =
                      [c EXCEPT !.pc = "upload", !.uploads = @ + 1,
                                !.item = [c.item EXCEPT !.likeCount = c.likeCount]]]
               /\ last' = NoOp
    /\ UNCHANGED <<bottles, Rest, initialized, client, now, ledgerPtr, isForever>>

\* updateBottleCounts never lowering a count: the new payload keeps the
\* original's count where it is the larger one.
UpdateBottleCountsResumeMerges(p) ==
    /\ calls[p].pc = "got"
    /\ LET c == calls[p]
       IN IF c.item.type # "bottle"
          THEN /\ Finish(p, c, "PARSE_FAILED")
               /\ UNCHANGED cache
          ELSE /\ cache' = [cache EXCEPT ![c.cid] = NoEntry]
               /\ calls' = [calls EXCEPT ![p] =
                      [c EXCEPT !.pc = "upload", !.uploads = @ + 1,
                                !.item = [c.item EXCEPT
                                    !.likeCount = Max(@, c.likeCount),
                                    !.commentCount = Max(@, c.commentCount)]]]
               /\ last' = NoOp
    /\ UNCHANGED <<bottles, Rest, initialized, client, now, ledgerPtr, isForever>>

\* updateBottleCounts taking the counts from the tracker again when getItem
\* has returned, in place of the arguments it was called with.
UpdateBottleCountsResumeRereads(p) ==
    /\ calls[p].pc = "got"
    /\ LET c == calls[p]
       IN IF c.item.type # "bottle"
          THEN /\ Finish(p, c, "PARSE_FAILED")
               /\ UNCHANGED cache
          ELSE /\ cache' = [cache EXCEPT ![c.cid] = NoEntry]
               /\ calls' = [calls EXCEPT ![p] =
                      [c EXCEPT !.pc = "upload", !.uploads = @ + 1,
                                !.item = [c.item EXCEPT
                                    !.likeCount = bottles[c.id].likeCount,
                                    !.commentCount = bottles[c.id].commentCount]]]
               /\ last' = NoOp
    /\ UNCHANGED <<bottles, Rest, initialized, client, now, ledgerPtr, isForever>>

\* updateBottleCounts without the check of the item's type.
UpdateBottleCountsResumeAnyType(p) ==
    /\ calls[p].pc = "got"
    /\ LET c == calls[p]
       IN /\ cache' = [cache EXCEPT ![c.cid] = NoEntry]
          /\ calls' = [calls EXCEPT ![p] =
                 [c EXCEPT !.pc = "upload", !.uploads = @ + 1,
                           !.item = [c.item EXCEPT !.likeCount = c.likeCount,
                                                   !.commentCount = c.commentCount]]]
          /\ last' = NoOp
    /\ UNCHANGED <<bottles, Rest, initialized, client, now, ledgerPtr, isForever>>

\* updateBottleCounts resumes with the item getItem returned: the type check,
\* then {...originalBottle, likeCount, commentCount}, cache.delete(originalCid)
\* and the call of uploadJSON, which awaits client.uploadFile.
UpdateBottleCountsResume(p) ==
    /\ calls[p].pc = "got"
    /\ LET c == calls[p]
       IN IF c.item.type # "bottle"
          THEN /\ Finish(p, c, "PARSE_FAILED")
               /\ UNCHANGED cache
          ELSE /\ cache' = [cache EXCEPT ![c.cid] = NoEntry]
               /\ calls' = [calls EXCEPT ![p] =
                      [c EXCEPT !.pc = "upload", !.uploads = @ + 1,
                                !.item = [c.item EXCEPT !.likeCount = c.likeCount,
                                                        !.commentCount = c.commentCount]]]
               /\ last' = NoOp
    /\ UNCHANGED <<bottles, Rest, initialized, client, now, ledgerPtr, isForever>>

\* A direct call of IPFSService.getItem(cid), up to its first await.
GetItemStart(p, cid) ==
    /\ calls[p].pc = "idle"
    /\ LET c == [IdleCall EXCEPT !.op = "getItem", !.cid = cid]
       IN IF EnsureInitializedThrows
          THEN /\ Finish(p, c, "NOT_INITIALIZED")
               /\ UNCHANGED cache
          ELSE IF CacheHit(cache, now, cid)
               THEN /\ Finish(p, [c EXCEPT !.item = cache[cid].data], "")
                    /\ UNCHANGED cache
               ELSE /\ cache' = GetFromCache(cache, now, cid)
                    /\ calls' = [calls EXCEPT ![p] = [c EXCEPT !.pc = "fetch", !.fetches = @ + 1]]
                    /\ last' = NoOp
    /\ UNCHANGED <<bottles, Rest, initialized, client, now, ledgerPtr, isForever>>

\* IPFSService.uploadBottle(message, userId) and uploadComment(message,
\* bottleId, userId) up to the await in uploadJSON; b stands for the message
\* and the user of a bottle.
UploadStart(p, op, b) ==
    /\ calls[p].pc = "idle"
    /\ LET c == [IdleCall EXCEPT !.op = op,
                    !.item = IF op = "uploadBottle" THEN BottleItem(b, 0, 0) ELSE CommentItem]
       IN IF EnsureInitializedThrows
          THEN Finish(p, c, "NOT_INITIALIZED")
          ELSE /\ calls' = [calls EXCEPT ![p] = [c EXCEPT !.pc = "upload", !.uploads = @ + 1]]
               /\ last' = NoOp
    /\ UNCHANGED <<bottles, Rest, initialized, client, cache, now, ledgerPtr, isForever>>

\* IPFSService.login up to its await of client.login: ensureInitialized is
\* called inside the try block, whose catch rethrows whatever is thrown as
\* SPACE_REGISTRATION_FAILED.
LoginStart(p) ==
    /\ calls[p].pc = "idle"
    /\ LET c == [IdleCall EXCEPT !.op = "login"]
       IN IF EnsureInitializedThrows
          THEN /\ calls' = [calls EXCEPT ![p] = IdleCall]
               /\ last' = [Finished(c, "SPACE_REGISTRATION_FAILED") EXCEPT
                              !.cause = "NOT_INITIALIZED"]
          ELSE /\ calls' = [calls EXCEPT ![p] = [c EXCEPT !.pc = "login"]]
               /\ last' = NoOp
    /\ UNCHANGED <<bottles, Rest, initialized, client, cache, now, ledgerPtr, isForever>>

\* client.login settles.
LoginDone(p, ok) ==
    /\ calls[p].pc = "login"
    /\ calls' = [calls EXCEPT ![p] = IdleCall]
    /\ last' = [Finished(calls[p], IF ok THEN "" ELSE "SPACE_REGISTRATION_FAILED") EXCEPT
                   !.cause = IF ok THEN "" ELSE "Error"]
    /\ UNCHANGED <<bottles, Rest, initialized, client, cache, now, ledgerPtr, isForever>>

\* IPFSService.clearCache; the calls in flight have had the cache cleared
\* under them.
ClearCache ==
    /\ cache' = [h \in Cids |-> NoEntry]
    /\ calls' = [q \in Procs |->
                   IF calls[q].pc = "idle" THEN calls[q]
                   ELSE [calls[q] EXCEPT !.cacheAlone = FALSE]]
    /\ last' = NoOp
    /\ UNCHANGED <<bottles, Rest, initialized, client, now, ledgerPtr, isForever>>

\* The instants of this model: around one and around two expiration periods.
TimeLine ==
    {0, 1, CacheExpirationMs - 1, CacheExpirationMs, CacheExpirationMs + 1,
     2 * CacheExpirationMs, 2 * CacheExpirationMs + 1}

\* Time passes: Date.now() returns t from now on, and what returned before
\* has no longer just returned.
Tick(t) ==
    /\ t > now
    /\ now' = t
    /\ last' = NoOp
    /\ UNCHANGED <<bottles, Rest, initialized, client, cache, ledgerPtr, isForever, calls>>

---------------------------------------------------------------------------
(* IPFSCountSync.syncBottleCounts *)

\* The hash the store returned to the syncBottleCounts call on bottle id that
\* failed at the contract, when that is the syncBottleCounts call before this.
FailedBefore(id) ==
    IF /\ "retry" \in tracing
       /\ last.op = "syncBottleCounts" /\ last.id = id /\ last.err = "LedgerCallFailed"
    THEN last.ret
    ELSE NoCid

\* syncBottleCounts passing the two counts in the wrong order.
SyncStartSwapped(p, id) ==
    /\ calls[p].pc = "idle"
    /\ IF GetThrows(id)
       THEN /\ Finish(p, [IdleCall EXCEPT !.op = "sync", !.id = id], "NotLoaded")
            /\ UNCHANGED cache
       ELSE UpdateBottleCounts(p,
                [IdleCall EXCEPT !.op = "sync", !.id = id, !.pre = bottles[id],
                                 !.cid = bottles[id].currentIpfsHash,
                                 !.likeCount = bottles[id].commentCount,
                                 !.commentCount = bottles[id].likeCount,
                                 !.failedCid = FailedBefore(id)])
    /\ UNCHANGED <<bottles, Rest, initialized, client, now, ledgerPtr, isForever>>

\* The call starts: state.get(bottleId), then updateBottleCounts with the
\* hash and the counts the tracker holds at this moment.
SyncStart(p, id) ==
    /\ calls[p].pc = "idle"
    /\ IF GetThrows(id)
       THEN /\ Finish(p, [IdleCall EXCEPT !.op = "sync", !.id = id], "NotLoaded")
            /\ UNCHANGED cache
       ELSE UpdateBottleCounts(p,
                [IdleCall EXCEPT !.op = "sync", !.id = id, !.pre = bottles[id],
                                 !.cid = bottles[id].currentIpfsHash,
                                 !.likeCount = bottles[id].likeCount,
                                 !.commentCount = bottles[id].commentCount,
                                 !.failedCid = FailedBefore(id)])
    /\ UNCHANGED <<bottles, Rest, initialized, client, now, ledgerPtr, isForever>>

\* syncBottleCommentCount passing the tracker's likeCount to the store too.
SyncBottleCommentCountWithLikes(p, id) ==
    /\ calls[p].pc = "idle"
    /\ IF GetThrows(id)
       THEN /\ Finish(p, [IdleCall EXCEPT !.op = "syncBottleCommentCount", !.id = id],
                      "NotLoaded")
            /\ UNCHANGED cache
       ELSE UpdateBottleCounts(p,
                [IdleCall EXCEPT !.op = "syncBottleCommentCount", !.id = id,
                                 !.pre = bottles[id],
                                 !.cid = bottles[id].currentIpfsHash,
                                 !.likeCount = bottles[id].likeCount,
                                 !.commentCount = bottles[id].commentCount])
    /\ UNCHANGED <<bottles, Rest, initialized, client, now, ledgerPtr, isForever>>

\* syncBottleCommentCount (the variant that leaves the likes to another
\* system) starts: state.get(bottleId), then updateBottleCommentCount with the
\* hash and the commentCount the tracker holds at this moment.
SyncBottleCommentCount(p, id) ==
    /\ calls[p].pc = "idle"
    /\ IF GetThrows(id)
       THEN /\ Finish(p, [IdleCall EXCEPT !.op = "syncBottleCommentCount", !.id = id],
                      "NotLoaded")
            /\ UNCHANGED cache
       ELSE UpdateBottleCounts(p,
                [IdleCall EXCEPT !.op = "syncBottleCommentCount", !.id = id,
                                 !.pre = bottles[id],
                                 !.cid = bottles[id].currentIpfsHash,
                                 !.likeCount = Undef,
                                 !.commentCount = bottles[id].commentCount])
    /\ UNCHANGED <<bottles, Rest, initialized, client, now, ledgerPtr, isForever>>

\* updateBottleCommentCount resumes with the item getItem returned: as
\* updateBottleCounts, but the new payload is the prior payload with the
\* commentCount replaced and the likeCount left as stored, no likeCount
\* having been passed.
UpdateBottleCommentCountResume(p) ==
    /\ calls[p].pc = "got"
    /\ LET c == calls[p]
       IN IF c.item.type # "bottle"
          THEN /\ Finish(p, c, "PARSE_FAILED")
               /\ UNCHANGED cache
          ELSE /\ cache' = [cache EXCEPT ![c.cid] = NoEntry]
               /\ calls' = [calls EXCEPT ![p] =
                      [c EXCEPT !.pc = "upload", !.uploads = @ + 1,
                                !.item = [c.item EXCEPT
                                    !.commentCount = c.commentCount,
                                    !.likeCount = IF c.likeCount = Undef THEN @
                                                  ELSE c.likeCount]]]
               /\ last' = NoOp
    /\ UNCHANGED <<bottles, Rest, initialized, client, now, ledgerPtr, isForever>>

\* The codes an IPFSError carries.
IPFSErrorCode ==
    {"INIT_FAILED", "UPLOAD_FAILED", "FETCH_FAILED", "INVALID_CID", "PARSE_FAILED",
     "NOT_INITIALIZED", "SPACE_REGISTRATION_FAILED"}

\* getItem storing what it fetched before it validates it.
FetchDoneCachesFirst(p, ok) ==
    /\ calls[p].pc = "fetch"
    /\ LET c == calls[p]
           data == ItemOf(c.cid)
       IN /\ cache' = IF ok THEN StoreInCache(cache, now, c.cid, data) ELSE cache
          /\ IF ~ok \/ ~ValidItem(data)
             THEN /\ calls' = [calls EXCEPT ![p] = IdleCall]
                  /\ last' = [Finished(c, "FETCH_FAILED") EXCEPT
                                 !.cause = IF ok THEN "PARSE_FAILED" ELSE "Error"]
             ELSE IF c.op = "getItem"
                  THEN Finish(p, [c EXCEPT !.item = data], "")
                  ELSE /\ calls' = [calls EXCEPT ![p] =
                              [c EXCEPT !.pc = "got", !.item = data]]
                       /\ last' = NoOp
    /\ UNCHANGED <<bottles, Rest, initialized, client, now, ledgerPtr, isForever>>

\* getItem's fetch settles: a transport error or a non-OK response, or the
\* JSON, which is validated and cached; any throw is rethrown as FETCH_FAILED.
FetchDone(p, ok) ==
    /\ calls[p].pc = "fetch"
    /\ LET c == calls[p]
           data == ItemOf(c.cid)
       IN IF ~ok \/ ~ValidItem(data)
          THEN /\ calls' = [calls EXCEPT ![p] = IdleCall]
               /\ last' = [Finished(c, "FETCH_FAILED") EXCEPT
                              !.cause = IF ok THEN "PARSE_FAILED" ELSE "Error"]
               /\ UNCHANGED cache
          ELSE /\ cache' = StoreInCache(cache, now, c.cid, data)
               /\ IF c.op = "getItem"
                  THEN Finish(p, [c EXCEPT !.item = data], "")
                  ELSE /\ calls' = [calls EXCEPT ![p] =
                              [c EXCEPT !.pc = "got", !.item = data]]
                       /\ last' = NoOp
    /\ UNCHANGED <<bottles, Rest, initialized, client, now, ledgerPtr, isForever>>

\* syncBottleCounts writing the tracker's hash as soon as the upload returns,
\* before the contract call.
UploadDoneEager(p, ok) ==
    /\ calls[p].pc = "upload"
    /\ LET c == calls[p]
       IN IF ~ok
          THEN /\ Finish(p, c, "UPLOAD_FAILED")
               /\ UNCHANGED bottles
          ELSE /\ calls' = [calls EXCEPT ![p] =
                      [c EXCEPT !.pc = "ledger", !.newCid = CidOf(c.item),
                                !.ledgerArg = CidOf(c.item), !.updates = @ + 1]]
               /\ bottles' = IF c.op = "sync" /\ Loaded(c.id)
                             THEN TrackerUpdateIPFSHash(bottles, c.id, CidOf(c.item))
                             ELSE bottles
               /\ last' = NoOp
    /\ UNCHANGED <<Rest, initialized, client, cache, now, ledgerPtr, isForever>>

\* uploadJSON trying client.uploadFile a second time when the first try fails.
UploadDoneRetry(p, ok) ==
    /\ calls[p].pc = "upload"
    /\ LET c == calls[p]
       IN IF ~ok
          THEN IF c.uploads < 2
               THEN /\ calls' = [calls EXCEPT ![p] = [c EXCEPT !.uploads = @ + 1]]
                    /\ last' = NoOp
               ELSE Finish(p, c, "UPLOAD_FAILED")
          ELSE /\ calls' = [calls EXCEPT ![p] =
                      [c EXCEPT !.pc = "ledger", !.newCid = CidOf(c.item),
                                !.ledgerArg = CidOf(c.item), !.updates = @ + 1]]
               /\ last' = NoOp
    /\ UNCHANGED <<bottles, Rest, initialized, client, cache, now, ledgerPtr, isForever>>

\* uploadJSON's client.uploadFile settles; uploadBottle and uploadComment
\* return the UploadResult, and with its cid syncBottleCounts goes on to call
\* contract.updateBottleIPFS(bottleId, newMetadata.cid).
UploadDone(p, ok) ==
    /\ calls[p].pc = "upload"
    /\ LET c == calls[p]
       IN IF ~ok
          THEN Finish(p, c, "UPLOAD_FAILED")
          ELSE IF c.op \in {"uploadBottle", "uploadComment"}
          THEN Finish(p, [c EXCEPT !.newCid = CidOf(c.item)], "")
          ELSE /\ calls' = [calls EXCEPT ![p] =
                      [c EXCEPT !.pc = "ledger", !.newCid = CidOf(c.item),
                                !.ledgerArg = CidOf(c.item), !.updates = @ + 1]]
               /\ last' = NoOp
    /\ UNCHANGED <<bottles, Rest, initialized, client, cache, now, ledgerPtr, isForever>>

\* syncBottleCounts catching the contract's error and going on to the
\* tracker write.
LedgerDoneIgnoreFailure(p, ok) ==
    /\ calls[p].pc = "ledger"
    /\ LET c == calls[p]
       IN IF ~ok
          THEN /\ calls' = [calls EXCEPT ![p] = [c EXCEPT !.pc = "write"]]
               /\ last' = NoOp
               /\ UNCHANGED ledgerPtr
          ELSE /\ ledgerPtr' = [ledgerPtr EXCEPT ![c.id] = c.ledgerArg]
               /\ calls' = [calls EXCEPT ![p] = [c EXCEPT !.pc = "write", !.acked = TRUE]]
               /\ last' = NoOp
    /\ UNCHANGED <<bottles, Rest, initialized, client, cache, now, isForever>>

\* syncBottleCounts recording the new hash in the tracker in a finally block,
\* so also when the contract call threw.
LedgerDoneAdvanceOnFailure(p, ok) ==
    /\ calls[p].pc = "ledger"
    /\ LET c == calls[p]
       IN IF ~ok
          THEN /\ Finish(p, c, "LedgerCallFailed")
               /\ bottles' = IF Loaded(c.id)
                             THEN TrackerUpdateIPFSHash(bottles, c.id, c.newCid)
                             ELSE bottles
               /\ UNCHANGED ledgerPtr
          ELSE /\ ledgerPtr' = [ledgerPtr EXCEPT ![c.id] = c.ledgerArg]
               /\ calls' = [calls EXCEPT ![p] = [c EXCEPT !.pc = "write", !.acked = TRUE]]
               /\ last' = NoOp
               /\ UNCHANGED bottles
    /\ UNCHANGED <<Rest, initialized, client, cache, now, isForever>>

\* updateBottleIPFS throwing although its transaction was mined: the contract
\* holds the new hash and the caller sees a failure.
LedgerDoneMinedThenThrows(p, ok) ==
    /\ calls[p].pc = "ledger"
    /\ LET c == calls[p]
       IN /\ ledgerPtr' = [ledgerPtr EXCEPT ![c.id] = c.ledgerArg]
          /\ IF ~ok
             THEN Finish(p, c, "LedgerCallFailed")
             ELSE /\ calls' = [calls EXCEPT ![p] = [c EXCEPT !.pc = "write", !.acked = TRUE]]
                  /\ last' = NoOp
    /\ UNCHANGED <<bottles, Rest, initialized, client, cache, now, isForever>>

\* The transaction of updateBottleIPFS is mined, or it fails and leaves the
\* contract as it was.
LedgerDone(p, ok) ==
    /\ calls[p].pc = "ledger"
    /\ LET c == calls[p]
       IN IF ~ok
          THEN /\ Finish(p, c, "LedgerCallFailed")
               /\ UNCHANGED ledgerPtr
          ELSE /\ ledgerPtr' = [ledgerPtr EXCEPT ![c.id] = c.ledgerArg]
               /\ calls' = [calls EXCEPT ![p] = [c EXCEPT !.pc = "write", !.acked = TRUE]]
               /\ last' = NoOp
    /\ UNCHANGED <<bottles, Rest, initialized, client, cache, now, isForever>>

\* syncBottleCounts recording a hash it computes from the tracker's counts at
\* the moment of the write, not the hash the contract was given.
SyncWriteLocalHash(p) ==
    /\ calls[p].pc = "write"
    /\ LET c == calls[p]
       IN IF GetThrows(c.id)
          THEN /\ Finish(p, c, "NotLoaded")
               /\ UNCHANGED bottles
          ELSE /\ bottles' = TrackerUpdateIPFSHash(bottles, c.id,
                                 CidOf([c.item EXCEPT
                                     !.likeCount = bottles[c.id].likeCount,
                                     !.commentCount = bottles[c.id].commentCount]))
               /\ calls' = [Touch(calls, c.id, p) EXCEPT ![p] = IdleCall]
               /\ last' = Finished(c, "")
    /\ UNCHANGED <<Rest, initialized, client, cache, now, ledgerPtr, isForever>>

\* syncBottleCounts writing back the counts it uploaded together with the hash.
SyncWriteReload(p) ==
    /\ calls[p].pc = "write"
    /\ LET c == calls[p]
       IN IF GetThrows(c.id)
          THEN /\ Finish(p, c, "NotLoaded")
               /\ UNCHANGED bottles
          ELSE /\ bottles' = TrackerLoad(bottles, c.id, c.newCid, c.likeCount, c.commentCount)
               /\ calls' = [Touch(calls, c.id, p) EXCEPT ![p] = IdleCall]
               /\ last' = Finished(c, "")
    /\ UNCHANGED <<Rest, initialized, client, cache, now, ledgerPtr, isForever>>

\* tx.wait() has resolved: state.updateIPFSHash(bottleId, newMetadata.cid).
SyncWrite(p) ==
    /\ calls[p].pc = "write"
    /\ LET c == calls[p]
       IN IF GetThrows(c.id)
          THEN /\ Finish(p, c, "NotLoaded")
               /\ UNCHANGED bottles
          ELSE /\ bottles' = TrackerUpdateIPFSHash(bottles, c.id, c.newCid)
               /\ calls' = [Touch(calls, c.id, p) EXCEPT ![p] = IdleCall]
               /\ last' = Finished(c, "")
    /\ UNCHANGED <<Rest, initialized, client, cache, now, ledgerPtr, isForever>>

---------------------------------------------------------------------------
(* ForeverManager.promote *)

\* meetsThreshold satisfied by either count alone.
MeetsThresholdEither(id) ==
    \/ bottles[id].likeCount >= thresholds.likes
    \/ bottles[id].commentCount >= thresholds.comments

\* meetsThreshold asking for more than the thresholds.
MeetsThresholdAbove(id) ==
    /\ bottles[id].likeCount > thresholds.likes
    /\ bottles[id].commentCount > thresholds.comments

MeetsThreshold(id) ==
    /\ bottles[id].likeCount >= thresholds.likes
    /\ bottles[id].commentCount >= thresholds.comments

\* promote taking the forever mark back from a bottle that no longer meets
\* the thresholds.
PromoteStartDemotes(p, id) ==
    /\ calls[p].pc = "idle"
    /\ LET c == [IdleCall EXCEPT !.op = "promote", !.id = id]
       IN IF GetThrows(id)
          THEN Finish(p, c, "NotLoaded") /\ UNCHANGED isForever
          ELSE IF ~MeetsThreshold(id)
               THEN /\ Finish(p, c, "")
                    /\ isForever' = [isForever EXCEPT ![id] = FALSE]
               ELSE /\ calls' = [calls EXCEPT ![p] =
                           [c EXCEPT !.pc = "getBottle", !.reads = @ + 1]]
                    /\ last' = NoOp
                    /\ UNCHANGED isForever
    /\ UNCHANGED <<bottles, Rest, initialized, client, cache, now, ledgerPtr>>

\* promote up to its first await: meetsThreshold (state.get throws for a
\* bottle that is not loaded), then the call of contract.getBottle.
PromoteStart(p, id) ==
    /\ calls[p].pc = "idle"
    /\ LET c == [IdleCall EXCEPT !.op = "promote", !.id = id]
       IN IF GetThrows(id)
          THEN Finish(p, c, "NotLoaded")
          ELSE IF ~MeetsThreshold(id)
               THEN Finish(p, c, "")
               ELSE /\ calls' = [calls EXCEPT ![p] =
                           [c EXCEPT !.pc = "getBottle", !.reads = @ + 1]]
                    /\ last' = NoOp
    /\ UNCHANGED <<bottles, Rest, initialized, client, cache, now, ledgerPtr, isForever>>

\* promote calling markBottleAsForever whatever getBottle reports.
GetBottleDoneAlwaysMarks(p, ok) ==
    /\ calls[p].pc = "getBottle"
    /\ LET c == calls[p]
       IN IF ~ok
          THEN Finish(p, c, "LedgerCallFailed")
          ELSE /\ calls' = [calls EXCEPT ![p] =
                      [c EXCEPT !.pc = "mark", !.marks = @ + 1]]
               /\ last' = NoOp
    /\ UNCHANGED <<bottles, Rest, initialized, client, cache, now, ledgerPtr, isForever>>

\* contract.getBottle settles: it fails, or promote reads bottle.isForever
\* and, when it is false, calls contract.markBottleAsForever.
GetBottleDone(p, ok) ==
    /\ calls[p].pc = "getBottle"
    /\ LET c == calls[p]
       IN IF ~ok
          THEN Finish(p, c, "LedgerCallFailed")
          ELSE IF isForever[c.id]
               THEN Finish(p, c, "")
               ELSE /\ calls' = [calls EXCEPT ![p] =
                           [c EXCEPT !.pc = "mark", !.marks = @ + 1]]
                    /\ last' = NoOp
    /\ UNCHANGED <<bottles, Rest, initialized, client, cache, now, ledgerPtr, isForever>>

\* The transaction of markBottleAsForever is mined, or it fails and leaves
\* the contract as it was.
MarkDone(p, ok) ==
    /\ calls[p].pc = "mark"
    /\ LET c == calls[p]
       IN /\ isForever' = IF ok THEN [isForever EXCEPT ![c.id] = TRUE] ELSE isForever
          /\ Finish(p, c, IF ok THEN "" ELSE "LedgerCallFailed")
    /\ UNCHANGED <<bottles, Rest, initialized, client, cache, now, ledgerPtr>>

---------------------------------------------------------------------------
(* BottleManager: likeBottle, unlikeBottle and addComment, each a contract  *)
(* transaction, a tracker mutation, updateBottleIPFS and, but for           *)
(* unlikeBottle, checkAndMarkForever.                                       *)

ManagerOps == {"likeBottle", "unlikeBottle", "addComment"}

\* bottleData.likeCount ?? 0
OrZero(n) == IF n = Undef THEN 0 ELSE n

\* loadBottleState up to its await of ipfsService.getItem(ipfsHash).
LoadBottleStateStart(p, id, h) ==
    /\ calls[p].pc = "idle"
    /\ LET c == [IdleCall EXCEPT !.op = "loadBottleState", !.id = id, !.cid = h]
       IN IF EnsureInitializedThrows
          THEN /\ Finish(p, c, "NOT_INITIALIZED")
               /\ UNCHANGED cache
          ELSE IF CacheHit(cache, now, h)
               THEN /\ calls' = [calls EXCEPT ![p] =
                           [c EXCEPT !.pc = "got", !.item = cache[h].data]]
                    /\ last' = NoOp
                    /\ UNCHANGED cache
               ELSE /\ cache' = GetFromCache(cache, now, h)
                    /\ calls' = [calls EXCEPT ![p] = [c EXCEPT !.pc = "fetch", !.fetches = @ + 1]]
                    /\ last' = NoOp
    /\ UNCHANGED <<bottles, Rest, initialized, client, now, ledgerPtr, isForever>>

\* loadBottleState resumes with the item: state.load(bottleId, ipfsHash,
\* bottleData.likeCount ?? 0, bottleData.commentCount ?? 0).
LoadBottleStateResume(p) ==
    /\ calls[p].pc = "got"
    /\ calls[p].op = "loadBottleState"
    /\ LET c == calls[p]
       IN /\ bottles' = TrackerLoad(bottles, c.id, c.cid,
                                    OrZero(c.item.likeCount), OrZero(c.item.commentCount))
          /\ Finish(p, c, "")
    /\ UNCHANGED <<Rest, initialized, client, cache, now, ledgerPtr, isForever>>

\* likeBottle and unlikeBottle looking the bottle up in the tracker before
\* they call the contract.
EngagementStartRequiresLoaded(p, op, id) ==
    /\ calls[p].pc = "idle"
    /\ op \in ManagerOps
    /\ engagements[id][op] < MaxCount
    /\ LET c == [IdleCall EXCEPT !.op = op, !.id = id]
       IN IF op = "addComment"
          THEN IF EnsureInitializedThrows
               THEN Finish(p, c, "NOT_INITIALIZED")
               ELSE /\ calls' = [calls EXCEPT ![p] =
                           [c EXCEPT !.pc = "comment", !.item = CommentItem,
                                     !.uploads = @ + 1]]
                    /\ last' = NoOp
          ELSE IF GetThrows(id)
               THEN Finish(p, c, "NotLoaded")
               ELSE /\ calls' = [calls EXCEPT ![p] = [c EXCEPT !.pc = "record"]]
                    /\ last' = NoOp
    /\ UNCHANGED <<bottles, Rest, initialized, client, cache, now, ledgerPtr, isForever>>

\* likeBottle(bottleId, likerAddress) and unlikeBottle up to the await of the
\* contract's likeBottle / unlikeBottle transaction; addComment up to the
\* await in ipfsService.uploadComment.  The guard caps the contract's record.
EngagementStart(p, op, id) ==
    /\ calls[p].pc = "idle"
    /\ op \in ManagerOps
    /\ engagements[id][op] < MaxCount
    /\ LET c == [IdleCall EXCEPT !.op = op, !.id = id]
       IN IF op = "addComment"
          THEN IF EnsureInitializedThrows
               THEN Finish(p, c, "NOT_INITIALIZED")
               ELSE /\ calls' = [calls EXCEPT ![p] =
                           [c EXCEPT !.pc = "comment", !.item = CommentItem,
                                     !.uploads = @ + 1]]
                    /\ last' = NoOp
          ELSE /\ calls' = [calls EXCEPT ![p] = [c EXCEPT !.pc = "record"]]
               /\ last' = NoOp
    /\ UNCHANGED <<bottles, Rest, initialized, client, cache, now, ledgerPtr, isForever>>

\* addComment's uploadComment settles; with the comment's cid addComment calls
\* contract.addComment(bottleId, commentResult.cid).
CommentUploadDone(p, ok) ==
    /\ calls[p].pc = "comment"
    /\ LET c == calls[p]
       IN IF ~ok
          THEN Finish(p, c, "UPLOAD_FAILED")
          ELSE /\ calls' = [calls EXCEPT ![p] =
                      [c EXCEPT !.pc = "record", !.item = NoItem]]
               /\ last' = NoOp
    /\ UNCHANGED <<bottles, Rest, initialized, client, cache, now, ledgerPtr, isForever>>

\* The tracker mutation of a BottleManager method.
Mutated(bs, op, id) ==
    IF op = "likeBottle" THEN TrackerIncrementLikes(bs, id)
    ELSE IF op = "unlikeBottle" THEN TrackerDecrementLikes(bs, id)
    ELSE TrackerIncrementComments(bs, id)

\* The tracker mutation of op keeps the count within the cap.
WithinCap(op, id) ==
    /\ op = "likeBottle" => bottles[id].likeCount < MaxCount
    /\ op = "addComment" => bottles[id].commentCount < MaxCount

\* The method with the tracker mutation placed before the contract call's
\* outcome is known: the count changes also when the transaction fails.
EngagementDoneCountsFirst(p, ok) ==
    /\ calls[p].pc = "record"
    /\ LET c == calls[p]
       IN /\ engagements' = IF ok THEN [engagements EXCEPT ![c.id][c.op] = @ + 1]
                             ELSE engagements
          /\ IF GetThrows(c.id)
             THEN /\ Finish(p, c, IF ok THEN "NotLoaded" ELSE "LedgerCallFailed")
                  /\ UNCHANGED <<bottles, cache>>
             ELSE /\ WithinCap(c.op, c.id)
                  /\ bottles' = Mutated(bottles, c.op, c.id)
                  /\ IF ~ok
                     THEN /\ Finish(p, c, "LedgerCallFailed")
                          /\ UNCHANGED cache
                     ELSE UpdateBottleCounts(p,
                              [c EXCEPT !.pre = bottles'[c.id],
                                        !.cid = bottles'[c.id].currentIpfsHash,
                                        !.likeCount = bottles'[c.id].likeCount,
                                        !.commentCount = bottles'[c.id].commentCount])
    /\ UNCHANGED <<tracing, thresholds, defaultInstance, instances, initialized, client, now,
                   ledgerPtr, isForever>>

\* The contract transaction settles (tx.wait()): it fails and the method
\* throws, or it is mined and the method goes on, without an await in
\* between, to the tracker mutation (which throws for a bottle that is not
\* loaded) and to updateBottleIPFS: state.require, then updateBottleCounts
\* with the hash and the counts the tracker now holds, up to its first await.
EngagementDone(p, ok) ==
    /\ calls[p].pc = "record"
    /\ LET c == calls[p]
       IN IF ~ok
          THEN /\ Finish(p, c, "LedgerCallFailed")
               /\ UNCHANGED <<bottles, cache, engagements>>
          ELSE /\ engagements' = [engagements EXCEPT ![c.id][c.op] = @ + 1]
               /\ IF GetThrows(c.id)
                  THEN /\ Finish(p, c, "NotLoaded")
                       /\ UNCHANGED <<bottles, cache>>
                  ELSE /\ WithinCap(c.op, c.id)
                       /\ bottles' = Mutated(bottles, c.op, c.id)
                       /\ UpdateBottleCounts(p,
                              [c EXCEPT !.pre = bottles'[c.id],
                                        !.cid = bottles'[c.id].currentIpfsHash,
                                        !.likeCount = bottles'[c.id].likeCount,
                                        !.commentCount = bottles'[c.id].commentCount])
    /\ UNCHANGED <<tracing, thresholds, defaultInstance, instances, initialized, client, now,
                   ledgerPtr, isForever>>

\* likeBottle and addComment returning after updateBottleIPFS, with no
\* checkAndMarkForever.
ManagerWriteNoCheck(p) ==
    /\ calls[p].pc = "write"
    /\ calls[p].op \in ManagerOps
    /\ LET c == calls[p]
       IN IF GetThrows(c.id)
          THEN /\ Finish(p, c, "NotLoaded")
               /\ UNCHANGED bottles
          ELSE /\ bottles' = TrackerUpdateIPFSHash(bottles, c.id, c.newCid)
               /\ Finish(p, c, "")
    /\ UNCHANGED <<Rest, initialized, client, cache, now, ledgerPtr, isForever>>

\* The updateBottleIPFS transaction has been mined: state.updateIpfsHash, and
\* the method goes on to checkAndMarkForever (unlikeBottle returns):
\* state.require, the two thresholds, and contract.getBottle when both are
\* met.
ManagerWrite(p) ==
    /\ calls[p].pc = "write"
    /\ calls[p].op \in ManagerOps
    /\ LET c == calls[p]
       IN IF GetThrows(c.id)
          THEN /\ Finish(p, c, "NotLoaded")
               /\ UNCHANGED bottles
          ELSE /\ bottles' = TrackerUpdateIPFSHash(bottles, c.id, c.newCid)
               /\ IF c.op = "unlikeBottle" \/ ~MeetsThreshold(c.id)
                  THEN Finish(p, c, "")
                  ELSE /\ calls' = [calls EXCEPT ![p] =
                              [c EXCEPT !.pc = "getBottle", !.reads = @ + 1]]
                       /\ last' = NoOp
    /\ UNCHANGED <<Rest, initialized, client, cache, now, ledgerPtr, isForever>>

Init == InitService /\ tracing = {}

\* The callers of syncBottleCounts, and the bottles they load.
SyncProcs == {1}

LoadIds == {1}

Next ==
    \/ \E id \in LoadIds, l \in LoadCounts, c \in LoadCounts :
            \E h \in LoadHashes(id) : Load(id, h, l, c)
    \/ \E id \in Ids : IncrementLikes(id)
    \/ \E id \in Ids : DecrementLikes(id)
    \/ \E id \in Ids : IncrementComments(id)
    \/ \E p \in SyncProcs : GetItemStart(p, CommentCid)
    \/ \E outcome \in {"ok", "createFails", "spaceFails"} : ~initialized /\ Initialize(outcome)
    \/ \E p \in SyncProcs, id \in Ids : SyncStart(p, id)
    \/ \E p \in SyncProcs, ok \in BOOLEAN : FetchDone(p, ok)
    \/ \E p \in SyncProcs : UpdateBottleCountsResume(p)
    \/ \E p \in SyncProcs, ok \in BOOLEAN : UploadDone(p, ok)
    \/ \E p \in SyncProcs, ok \in BOOLEAN : LedgerDone(p, ok)
    \/ \E p \in SyncProcs : SyncWrite(p)

Spec == Init /\ [][Next]_vars

---------------------------------------------------------------------------
(* A failed syncBottleCounts and its retry: one caller, one bottle loaded    *)
(* with the hash it was created under and liked and unliked in between, the *)
(* hashes of each failed attempt recorded.                                  *)

InitRetry == InitService /\ tracing = {"retry"}

RetryNext ==
    \/ \E id \in LoadIds, l \in LoadCounts : Load(id, InitCid(id), l, 0)
    \/ \E id \in LoadIds : IncrementLikes(id)
    \/ \E id \in LoadIds : DecrementLikes(id)
    \/ ~initialized /\ Initialize("ok")
    \/ \E p \in SyncProcs, id \in LoadIds : SyncStart(p, id)
    \/ \E p \in SyncProcs, ok \in BOOLEAN : FetchDone(p, ok)
    \/ \E p \in SyncProcs : UpdateBottleCountsResume(p)
    \/ \E p \in SyncProcs, ok \in BOOLEAN : UploadDone(p, ok)
    \/ \E p \in SyncProcs, ok \in BOOLEAN : LedgerDone(p, ok)
    \/ \E p \in SyncProcs : SyncWrite(p)

SpecRetry == InitRetry /\ [][RetryNext]_vars

---------------------------------------------------------------------------
(* Two bottles, each with its own caller, which syncs it one call at a time: *)
(* bottle 1 starts without likes and is liked, bottle 2 starts with MaxCount *)
(* likes and is unliked.  A bottle is loaded once; two bottles of the same  *)
(* content have the same hash.                                              *)

InitPair == InitService /\ tracing = {}

\* Bottle 1 is loaded with its own first hash, bottle 2 with its own or with
\* bottle 1's.
PairHashes(id) == { InitCid(b) : b \in 1 .. id }

PairNext ==
    \/ \E id \in Ids : \E h \in PairHashes(id) :
            ~Loaded(id) /\ Load(id, h, IF id = 1 THEN 0 ELSE MaxCount, 0)
    \/ Loaded(1) /\ IncrementLikes(1)
    \/ Loaded(2) /\ DecrementLikes(2)
    \/ ~initialized /\ Initialize("ok")
    \/ \E p \in Procs : Loaded(p) /\ SyncStart(p, p)
    \/ \E p \in Procs, ok \in BOOLEAN : FetchDone(p, ok)
    \/ \E p \in Procs : UpdateBottleCountsResume(p)
    \/ \E p \in Procs, ok \in BOOLEAN : UploadDone(p, ok)
    \/ \E p \in Procs, ok \in BOOLEAN : LedgerDone(p, ok)
    \/ \E p \in Procs : SyncWrite(p)

SpecPair == InitPair /\ [][PairNext]_vars

---------------------------------------------------------------------------
(* One caller that likes, comments, syncs and promotes, awaiting each call   *)
(* before the next, on a bottle that is loaded and on one that never is;    *)
(* the StateTracker's methods, called from outside, are recorded in last.   *)

InitPromote == InitService /\ tracing = {"tracker"}

\* No call is in flight.
Quiet == \A p \in Procs : calls[p].pc = "idle"

PromoteNext ==
    \/ \E id \in LoadIds, l \in LoadCounts, c \in LoadCounts :
            Quiet /\ Load(id, InitCid(id), l, c)
    \/ \E id \in Ids : Quiet /\ IncrementLikes(id)
    \/ \E id \in Ids : Quiet /\ DecrementLikes(id)
    \/ \E id \in Ids : Quiet /\ IncrementComments(id)
    \/ \E id \in Ids : Quiet /\ UpdateIPFSHash(id, InitCid(id))
    \/ \E id \in Ids : Quiet /\ Get(id)
    \/ ~initialized /\ Initialize("ok")
    \/ \E p \in SyncProcs, id \in Ids : SyncStart(p, id)
    \/ \E p \in SyncProcs, ok \in BOOLEAN : FetchDone(p, ok)
    \/ \E p \in SyncProcs : UpdateBottleCountsResume(p)
    \/ \E p \in SyncProcs, ok \in BOOLEAN : UploadDone(p, ok)
    \/ \E p \in SyncProcs, ok \in BOOLEAN : LedgerDone(p, ok)
    \/ \E p \in SyncProcs : SyncWrite(p)
    \/ \E p \in SyncProcs, id \in Ids : PromoteStart(p, id)
    \/ \E p \in SyncProcs, ok \in BOOLEAN : GetBottleDone(p, ok)
    \/ \E p \in SyncProcs, ok \in BOOLEAN : MarkDone(p, ok)

SpecPromote == InitPromote /\ [][PromoteNext]_vars

---------------------------------------------------------------------------
(* ForeverManagers constructed with both thresholds, with one of them and   *)
(* with none, each promoting bottles loaded with counts at and just below   *)
(* the given and the default thresholds.                                    *)

InitDefaults ==
    /\ tracing = {}
    /\ \E arg \in ThresholdArgs :
          /\ Constructed(arg)
          /\ last = Returned("ForeverManager", 0, NoCid, arg.likes, arg.comments, NoRet, "")

DefaultsLikes == {Thresholds.likes, DefaultLikes - 1, DefaultLikes}

DefaultsComments == {Thresholds.comments, DefaultComments - 1, DefaultComments}

DefaultsNext ==
    \/ \E id \in Ids, l \in DefaultsLikes, c \in DefaultsComments :
            Quiet /\ Load(id, InitCid(id), l, c)
    \/ \E p \in SyncProcs, id \in Ids : PromoteStart(p, id)
    \/ \E p \in SyncProcs, ok \in BOOLEAN : GetBottleDone(p, ok)
    \/ \E p \in SyncProcs, ok \in BOOLEAN : MarkDone(p, ok)

SpecDefaults == InitDefaults /\ [][DefaultsNext]_vars

---------------------------------------------------------------------------
(* getIPFSService / resetIPFSService: two callers of the module's accessor *)

MaxInstances == 3

\* The StorachaConfig arguments, by their gatewayUrl.
Configs == {"gateway1", "gateway2"}

\* getIPFSService up to its first await: it returns defaultInstance, or
\* createIPFSService constructs an IPFSService from config and awaits its
\* initialize().
GetIPFSServiceStart(p, config) ==
    /\ calls[p].pc = "idle"
    /\ IF defaultInstance # NoInstance
       THEN /\ last' = Returned("getIPFSService", 0, NoCid, 0, 0, defaultInstance, "")
            /\ UNCHANGED <<calls, instances>>
       ELSE /\ Len(instances) < MaxInstances
            /\ instances' = Append(instances, config)
            /\ calls' = [calls EXCEPT ![p] =
                   [IdleCall EXCEPT !.op = "getIPFSService", !.pc = "create",
                                    !.instance = Len(instances) + 1]]
            /\ last' = NoOp
    /\ UNCHANGED <<bottles, tracing, thresholds, defaultInstance, engagements, initialized,
                   client, cache, now, ledgerPtr, isForever>>

\* service.initialize() settles: getIPFSService assigns the new service to
\* defaultInstance and returns it, or it rejects with INIT_FAILED.
CreateIPFSServiceDone(p, ok) ==
    /\ calls[p].pc = "create"
    /\ defaultInstance' = IF ok THEN calls[p].instance ELSE defaultInstance
    /\ calls' = [calls EXCEPT ![p] = IdleCall]
    /\ last' = Returned("getIPFSService", 0, NoCid, 0, 0,
                        IF ok THEN calls[p].instance ELSE NoRet,
                        IF ok THEN "" ELSE "INIT_FAILED")
    /\ UNCHANGED <<bottles, tracing, thresholds, instances, engagements, initialized, client,
                   cache, now, ledgerPtr, isForever>>

\* resetIPFSService; the calls in flight have had a reset under them.
ResetIPFSService ==
    /\ defaultInstance' = NoInstance
    /\ calls' = [q \in Procs |->
                   IF calls[q].pc = "idle" THEN calls[q]
                   ELSE [calls[q] EXCEPT !.resetAlone = FALSE]]
    /\ last' = NoOp
    /\ UNCHANGED <<bottles, tracing, thresholds, instances, engagements, initialized, client,
                   cache, now, ledgerPtr, isForever>>

InitSingleton == InitService /\ tracing = {}

SingletonNext ==
    \/ \E p \in Procs, config \in Configs : GetIPFSServiceStart(p, config)
    \/ \E p \in Procs, ok \in BOOLEAN : CreateIPFSServiceDone(p, ok)
    \/ ResetIPFSService

SpecSingleton == InitSingleton /\ [][SingletonNext]_vars

---------------------------------------------------------------------------
(* An IPFSService used before, during and after initialize(), which can     *)
(* fail at Client.create() or at setCurrentSpace: one caller uploads,       *)
(* reads, logs in and syncs bottle 1.                                       *)

InitUse == InitService /\ tracing = {}

UseNext ==
    \/ \E l \in LoadCounts : Quiet /\ Load(1, InitCid(1), l, 0)
    \/ \E outcome \in {"ok", "createFails", "spaceFails"} : Initialize(outcome)
    \/ \E p \in SyncProcs, b \in Ids : UploadStart(p, "uploadBottle", b)
    \/ \E p \in SyncProcs : UploadStart(p, "uploadComment", 0)
    \/ \E p \in SyncProcs : LoginStart(p)
    \/ \E p \in SyncProcs, ok \in BOOLEAN : LoginDone(p, ok)
    \/ \E p \in SyncProcs : \E cid \in {InitCid(1), CommentCid} : GetItemStart(p, cid)
    \/ \E p \in SyncProcs : SyncStart(p, 1)
    \/ \E p \in SyncProcs, ok \in BOOLEAN : FetchDone(p, ok)
    \/ \E p \in SyncProcs : UpdateBottleCountsResume(p)
    \/ \E p \in SyncProcs, ok \in BOOLEAN : UploadDone(p, ok)
    \/ \E p \in SyncProcs, ok \in BOOLEAN : LedgerDone(p, ok)
    \/ \E p \in SyncProcs : SyncWrite(p)

SpecUse == InitUse /\ [][UseNext]_vars

---------------------------------------------------------------------------
(* Two runs of the comment-count-only sync side by side: bottles 1 and 2    *)
(* are loaded with the same hash and the same commentCount and with any     *)
(* likeCount, are liked and unliked at any time, and each is synced by its  *)
(* own caller until its pointer has moved.                                  *)

InitComment == InitService /\ tracing = {}

CommentNext ==
    \/ \E l \in LoadCounts, c \in LoadCounts : ~Loaded(1) /\ Load(1, InitCid(1), l, c)
    \/ \E l \in LoadCounts :
            Loaded(1) /\ ~Loaded(2) /\ Load(2, InitCid(1), l, bottles[1].commentCount)
    \/ \E id \in Ids : Loaded(id) /\ IncrementLikes(id)
    \/ \E id \in Ids : Loaded(id) /\ DecrementLikes(id)
    \/ ~initialized /\ Initialize("ok")
    \/ \E p \in Procs :
            /\ Loaded(p) /\ bottles[p].currentIpfsHash = InitCid(1)
            /\ SyncBottleCommentCount(p, p)
    \/ \E p \in Procs, ok \in BOOLEAN : FetchDone(p, ok)
    \/ \E p \in Procs : UpdateBottleCommentCountResume(p)
    \/ \E p \in Procs, ok \in BOOLEAN : UploadDone(p, ok)
    \/ \E p \in Procs, ok \in BOOLEAN : LedgerDone(p, ok)
    \/ \E p \in Procs : SyncWrite(p)

SpecComment == InitComment /\ [][CommentNext]_vars

---------------------------------------------------------------------------
(* Overlapping syncs of one bottle: caller 1 syncs bottle 1, caller 2 syncs  *)
(* it too while a call of caller 1 is in flight, and the bottle is loaded   *)
(* again (with its first hash and no likes) and liked at any time.          *)

InitOverlap == InitService /\ tracing = {}

OverlapNext ==
    \/ Load(1, InitCid(1), 0, 0)
    \/ IncrementLikes(1)
    \/ ~initialized /\ Initialize("ok")
    \/ \E p \in Procs : (p = 1 \/ calls[1].pc # "idle") /\ SyncStart(p, 1)
    \/ \E p \in Procs, ok \in BOOLEAN : FetchDone(p, ok)
    \/ \E p \in Procs : UpdateBottleCountsResume(p)
    \/ \E p \in Procs, ok \in BOOLEAN : UploadDone(p, ok)
    \/ \E p \in Procs, ok \in BOOLEAN : LedgerDone(p, ok)
    \/ \E p \in Procs : SyncWrite(p)

SpecOverlap == InitOverlap /\ [][OverlapNext]_vars

---------------------------------------------------------------------------
(* The cache over time: one caller that reads items with getItem, among     *)
(* them one the gateway serves malformed, and syncs bottle 1, while the     *)
(* clock advances and the cache is cleared.                                 *)

InitCache == InitService /\ tracing = {}

CacheNext ==
    \/ \E l \in LoadCounts : Quiet /\ Load(1, InitCid(1), l, 0)
    \/ ~initialized /\ Initialize("ok")
    \/ \E t \in TimeLine : Tick(t)
    \/ ClearCache
    \/ \E p \in SyncProcs : \E cid \in {InitCid(1), CommentCid, BadCid} : GetItemStart(p, cid)
    \/ \E p \in SyncProcs : SyncStart(p, 1)
    \/ \E p \in SyncProcs, ok \in BOOLEAN : FetchDone(p, ok)
    \/ \E p \in SyncProcs : UpdateBottleCountsResume(p)
    \/ \E p \in SyncProcs, ok \in BOOLEAN : UploadDone(p, ok)
    \/ \E p \in SyncProcs, ok \in BOOLEAN : LedgerDone(p, ok)
    \/ \E p \in SyncProcs : SyncWrite(p)

SpecCache == InitCache /\ [][CacheNext]_vars

---------------------------------------------------------------------------
(* Two callers of promote on bottle 1, the calls overlapping between        *)
(* getBottle and markBottleAsForever; the contract sets the flag whenever a *)
(* markBottleAsForever transaction completes.                               *)

InitRace == InitService /\ tracing = {}

RaceNext ==
    \/ \E l \in Counts, c \in Counts : Quiet /\ Load(1, InitCid(1), l, c)
    \/ IncrementLikes(1)
    \/ IncrementComments(1)
    \/ DecrementLikes(1)
    \/ \E p \in Procs : PromoteStart(p, 1)
    \/ \E p \in Procs, ok \in BOOLEAN : GetBottleDone(p, ok)
    \/ \E p \in Procs : MarkDone(p, TRUE)

SpecRace == InitRace /\ [][RaceNext]_vars

---------------------------------------------------------------------------
(* One caller of the BottleManager on bottle 1: loadBottleState, likeBottle, *)
(* unlikeBottle and addComment, one call at a time, every await succeeding  *)
(* or failing.                                                              *)

InitManager == InitService /\ tracing = {}

\* The hashes loadBottleState is given: the bottle as created, and as it is
\* with both counts at the thresholds.
ManagerHashes == {InitCid(1), CidOf(BottleItem(1, Thresholds.likes, Thresholds.comments))}

ManagerNext ==
    \/ ~initialized /\ Initialize("ok")
    \/ \E p \in SyncProcs, h \in ManagerHashes : LoadBottleStateStart(p, 1, h)
    \/ \E p \in SyncProcs : LoadBottleStateResume(p)
    \/ \E p \in SyncProcs, op \in ManagerOps : EngagementStart(p, op, 1)
    \/ \E p \in SyncProcs, ok \in BOOLEAN : CommentUploadDone(p, ok)
    \/ \E p \in SyncProcs, ok \in BOOLEAN : EngagementDone(p, ok)
    \/ \E p \in SyncProcs, ok \in BOOLEAN : FetchDone(p, ok)
    \/ \E p \in SyncProcs : calls[p].op \in ManagerOps /\ UpdateBottleCountsResume(p)
    \/ \E p \in SyncProcs, ok \in BOOLEAN : UploadDone(p, ok)
    \/ \E p \in SyncProcs, ok \in BOOLEAN : LedgerDone(p, ok)
    \/ \E p \in SyncProcs : ManagerWrite(p)
    \/ \E p \in SyncProcs, ok \in BOOLEAN : GetBottleDone(p, ok)
    \/ \E p \in SyncProcs, ok \in BOOLEAN : MarkDone(p, ok)

SpecManager == InitManager /\ [][ManagerNext]_vars

---------------------------------------------------------------------------
(* Two callers of getItem, on the same hash and on different ones, their    *)
(* fetches overlapping, while the clock advances.                           *)

InitFetch == InitService /\ tracing = {}

FetchNext ==
    \/ ~initialized /\ Initialize("ok")
    \/ \E t \in TimeLine : Tick(t)
    \/ \E p \in Procs : \E cid \in {InitCid(1), CommentCid} : GetItemStart(p, cid)
    \/ \E p \in Procs, ok \in BOOLEAN : FetchDone(p, ok)

SpecFetch == InitFetch /\ [][FetchNext]_vars

---------------------------------------------------------------------------
(* What the gateway serves is not always an item: one caller reads          *)
(* well-formed and malformed payloads with getItem and syncs bottle 1,      *)
(* loaded with a well-formed or a malformed hash, while entries expire and  *)
(* the cache is cleared.                                                    *)

InitValidate == InitService /\ tracing = {}

ValidateNext ==
    \/ ~initialized /\ Initialize("ok")
    \/ \E h \in {InitCid(1), CommentCid} \cup MalformedCids : Quiet /\ Load(1, h, 0, 0)
    \/ Tick(CacheExpirationMs + 1)
    \/ ClearCache
    \/ \E p \in SyncProcs :
          \E cid \in {InitCid(1), CommentCid, BadCid} \cup MalformedCids : GetItemStart(p, cid)
    \/ \E p \in SyncProcs : SyncStart(p, 1)
    \/ \E p \in SyncProcs, ok \in BOOLEAN : FetchDone(p, ok)
    \/ \E p \in SyncProcs : UpdateBottleCountsResume(p)
    \/ \E p \in SyncProcs, ok \in BOOLEAN : UploadDone(p, ok)
    \/ \E p \in SyncProcs, ok \in BOOLEAN : LedgerDone(p, ok)
    \/ \E p \in SyncProcs : SyncWrite(p)

SpecValidate == InitValidate /\ [][ValidateNext]_vars

---------------------------------------------------------------------------
(* Count synchronisation: the order of the steps and what a failure leaves  *)

\* C1: when the store write of a syncBottleCounts call has returned a new
\* hash and the contract's updateBottleIPFS then fails, the call throws to its
\* caller, the step changes neither the tracker nor the contract, and the
\* tracker's currentIpfsHash of the bottle is the one the call read when it
\* started (nobody else having written it in between).
C1_LedgerFailureKeepsPointer ==
    [][\A p \in Procs :
         LET c == calls[p]
         IN (c.op = "sync" /\ c.pc = "ledger" /\ calls'[p].pc = "idle")
            => /\ c.newCid # NoCid
               /\ last'.op = "syncBottleCounts"
               /\ last'.id = c.id
               /\ last'.err = "LedgerCallFailed"
               /\ bottles' = bottles
               /\ ledgerPtr' = ledgerPtr
               /\ (c.ptrAlone =>
                     bottles'[c.id].currentIpfsHash = c.pre.currentIpfsHash)]_vars

\* A sync of a bottle with a like has just thrown at the contract step, and the
\* tracker and the contract still hold the bottle's first hash.
C1_Witness ==
    /\ last.op = "syncBottleCounts"
    /\ last.err = "LedgerCallFailed"
    /\ bottles[last.id].loaded
    /\ bottles[last.id].likeCount > 0
    /\ bottles[last.id].currentIpfsHash = InitCid(last.id)
    /\ ledgerPtr[last.id] = InitCid(last.id)

\* C2: a syncBottleCounts call runs tracker read, store write, contract
\* update, tracker write in that order: the upload is requested with what the
\* tracker read returned; the contract is called only from the point where the
\* upload returned its hash, and with that hash; the tracker is written only by
\* a call whose contract update succeeded; and when the store write fails (at
\* its fetch or at its upload) no contract call has been made and the step
\* leaves the tracker and the contract unchanged.
C2_SyncStepOrder ==
    [][\A p \in Procs :
         LET c == calls[p]
             d == calls'[p]
         IN (c.op = "sync" \/ d.op = "sync") =>
            /\ (d.uploads > c.uploads =>
                  /\ c.pc = "got"
                  /\ d.pre.loaded
                  /\ d.cid = d.pre.currentIpfsHash
                  /\ d.updates = 0
                  /\ ~d.acked)
            /\ (d.updates > c.updates =>
                  /\ c.pc = "upload"
                  /\ c.uploads = 1
                  /\ d.newCid = CidOf(c.item)
                  /\ d.ledgerArg = d.newCid)
            /\ ((d.pc # c.pc /\ ledgerPtr' # ledgerPtr) =>
                  /\ c.pc = "ledger"
                  /\ c.updates = 1
                  /\ ledgerPtr' = [ledgerPtr EXCEPT ![c.id] = c.newCid])
            /\ ((d.pc # c.pc /\ bottles' # bottles) =>
                  /\ c.pc = "write"
                  /\ c.acked
                  /\ c.uploads = 1
                  /\ c.updates = 1)
            /\ ((c.pc \in {"fetch", "got", "upload"} /\ d.pc = "idle") =>
                  /\ c.updates = 0
                  /\ last'.err \in {"FETCH_FAILED", "PARSE_FAILED", "UPLOAD_FAILED"}
                  /\ bottles' = bottles
                  /\ ledgerPtr' = ledgerPtr)]_vars

\* A sync has just returned normally and has moved the tracker and the
\* contract to a new hash.
C2_Witness ==
    /\ last.op = "syncBottleCounts"
    /\ last.err = ""
    /\ bottles[last.id].currentIpfsHash # InitCid(last.id)
    /\ bottles[last.id].currentIpfsHash = ledgerPtr[last.id]

\* C3: when a syncBottleCounts call succeeds with no other writer of the
\* bottle's pointer under it, the store write was requested with the pointer
\* and the counts the tracker held when the call read it, the contract was
\* called with exactly the hash the store returned, and the tracker's pointer
\* is that hash afterwards.
C3_SuccessfulSync ==
    [][\A p \in Procs :
         LET c == calls[p]
         IN (/\ c.op = "sync" /\ c.pc = "write" /\ calls'[p].pc = "idle"
             /\ last'.err = ""
             /\ c.ptrAlone)
            => /\ c.cid = c.pre.currentIpfsHash
               /\ c.cid = bottles[c.id].currentIpfsHash
               /\ c.likeCount = c.pre.likeCount
               /\ c.commentCount = c.pre.commentCount
               /\ c.item = [ItemOf(c.cid) EXCEPT !.likeCount = c.likeCount,
                                                 !.commentCount = c.commentCount]
               /\ c.newCid = CidOf(c.item)
               /\ c.ledgerArg = c.newCid
               /\ bottles'[c.id].currentIpfsHash = c.newCid]_vars

\* A sync has just returned normally and the blob the tracker now points at
\* carries the tracker's counts, which differ from each other.
C3_Witness ==
    /\ last.op = "syncBottleCounts"
    /\ last.err = ""
    /\ bottles[last.id].likeCount # bottles[last.id].commentCount
    /\ ItemOf(bottles[last.id].currentIpfsHash).likeCount = bottles[last.id].likeCount
    /\ ItemOf(bottles[last.id].currentIpfsHash).commentCount = bottles[last.id].commentCount

\* C4: no step of a syncBottleCounts call, failing or succeeding, changes the
\* likeCount or commentCount of any bottle, loads a bottle or touches another
\* bottle's entry: currentIpfsHash of its own bottle is all it can write.
C4_SyncKeepsCounters ==
    [][((\E p \in Procs : /\ calls[p].op = "sync" \/ calls'[p].op = "sync"
                          /\ calls'[p].pc # calls[p].pc)
        \/ last'.op = "syncBottleCounts")
       => \A id \in Ids :
            /\ bottles'[id].loaded = bottles[id].loaded
            /\ bottles'[id].likeCount = bottles[id].likeCount
            /\ bottles'[id].commentCount = bottles[id].commentCount
            /\ (bottles'[id] # bottles[id] => id = last'.id)]_vars

\* A sync has just returned normally although the counts moved while it was
\* in flight: the tracker holds counts the uploaded blob does not.
C4_Witness ==
    /\ last.op = "syncBottleCounts"
    /\ last.err = ""
    /\ bottles[last.id].currentIpfsHash # InitCid(last.id)
    /\ ItemOf(bottles[last.id].currentIpfsHash).likeCount # bottles[last.id].likeCount

\* C6: a syncBottleCounts call makes at most one store write and at most one
\* contract update, and a failure of the fetch, of the upload or of the
\* contract update ends the call at once with an error thrown to the caller.
C6_NoRetryNoSwallow ==
    [][\A p \in Procs :
         /\ calls'[p].fetches <= 1
         /\ calls'[p].uploads <= 1
         /\ calls'[p].updates <= 1
         /\ ((FetchDone(p, FALSE) \/ UploadDone(p, FALSE) \/ LedgerDone(p, FALSE)) =>
               /\ calls'[p].pc = "idle"
               /\ last'.op = IF calls[p].op = "sync" THEN "syncBottleCounts" ELSE "getItem"
               /\ last'.err \in {"FETCH_FAILED", "UPLOAD_FAILED", "LedgerCallFailed"})]_vars

\* A sync has just thrown the error of a failed upload.
C6_Witness ==
    /\ last.op = "syncBottleCounts"
    /\ last.err = "UPLOAD_FAILED"
    /\ bottles[last.id].loaded

\* C5 (as amended): a syncBottleCounts call that fails at the contract step
\* leaves the tracker and the contract as they were; the next syncBottleCounts
\* call on the same bottle, the tracker still holding the hash the failed call
\* read, uses that hash as the base of its store write; and when all its steps succeed the
\* tracker and the contract hold the hash its own store write returned.
C5_RetryFromLastGoodHash ==
    [][\A p \in Procs :
         LET c == calls[p]
             d == calls'[p]
         IN /\ (c.op = "sync" /\ c.pc = "ledger" /\ d.pc = "idle") =>
                  /\ bottles' = bottles
                  /\ ledgerPtr' = ledgerPtr
                  /\ last'.h = c.cid
                  /\ last'.ret = c.newCid
                  /\ (c.ptrAlone => bottles'[c.id].currentIpfsHash = last'.h)
            /\ (/\ last.op = "syncBottleCounts" /\ last.err = "LedgerCallFailed"
                /\ bottles[last.id].currentIpfsHash = last.h
                /\ c.pc = "idle" /\ d.op = "sync" /\ d.id = last.id) =>
                  /\ d.pc = "fetch"
                  /\ d.cid = last.h
                  /\ d.failedCid = last.ret
            /\ (c.op = "sync" /\ c.failedCid # NoCid /\ c.pc = "upload" /\ d.pc = "ledger") =>
                  d.newCid = CidOf([ItemOf(c.cid) EXCEPT !.likeCount = c.likeCount,
                                                        !.commentCount = c.commentCount])
            /\ (c.op = "sync" /\ c.failedCid # NoCid /\ c.pc = "write" /\ d.pc = "idle") =>
                  /\ bottles'[c.id].currentIpfsHash = c.newCid
                  /\ ledgerPtr'[c.id] = c.newCid]_vars

\* The retry of a sync that failed at the contract has passed the contract
\* step and is about to write the tracker; the failed attempt had written a
\* hash other than the one it started from.
C5_Witness ==
    \E p \in Procs :
        /\ calls[p].op = "sync"
        /\ calls[p].pc = "write"
        /\ calls[p].failedCid # NoCid
        /\ calls[p].failedCid # calls[p].cid

\* C5 (as stated): after a syncBottleCounts call failed at the contract step
\* having written a hash other than its base, the next call on the bottle
\* starts from the same base and moves the tracker to the hash it is returned,
\* and neither the tracker nor the contract ever holds the hash the failed
\* attempt wrote.
C5_FailedBlobNeverReferenced ==
    [][\A p \in Procs :
         LET c == calls[p]
             d == calls'[p]
         IN /\ (/\ last.op = "syncBottleCounts" /\ last.err = "LedgerCallFailed"
                /\ bottles[last.id].currentIpfsHash = last.h
                /\ c.pc = "idle" /\ d.op = "sync" /\ d.id = last.id) =>
                  d.cid = last.h
            /\ (c.op = "sync" /\ c.failedCid # NoCid /\ c.pc = "write" /\ d.pc = "idle") =>
                  bottles'[c.id].currentIpfsHash = c.newCid
            /\ (/\ c.op = "sync" /\ c.failedCid # NoCid /\ c.failedCid # c.cid
                /\ d.pc # c.pc) =>
                  /\ bottles'[c.id].currentIpfsHash # c.failedCid
                  /\ ledgerPtr'[c.id] # c.failedCid]_vars

---------------------------------------------------------------------------
(* Two bottles side by side, over SpecPair *)

\* C8 (as amended): every step of a counter mutation or of a syncBottleCounts
\* call on one bottle leaves the other bottle's tracker entry, contract
\* pointer and call in flight as they were; what a call uploads, passes to
\* the contract and writes to the tracker is determined by its own bottle's
\* entry; a call touches the cache only under its own base hash; and when the
\* other bottle's pointer is a different hash, the call fetches its base from
\* the gateway, as it does running alone.
C8_IndependentEntities ==
    [][/\ \A a \in Ids, b \in Ids :
            a # b =>
              \/ <<bottles'[a], ledgerPtr'[a], calls'[a]>> = <<bottles[a], ledgerPtr[a], calls[a]>>
              \/ <<bottles'[b], ledgerPtr'[b], calls'[b]>> = <<bottles[b], ledgerPtr[b], calls[b]>>
       /\ \A p \in Procs :
            LET c == calls[p]
                d == calls'[p]
            IN /\ ((c.pc = "idle" /\ d.pc # "idle") =>
                     /\ d.id = p
                     /\ d.cid = bottles[p].currentIpfsHash
                     /\ d.likeCount = bottles[p].likeCount
                     /\ d.commentCount = bottles[p].commentCount
                     /\ ((\A q \in Ids : q # p =>
                             ~(bottles[q].loaded /\ bottles[q].currentIpfsHash = d.cid))
                         => d.pc = "fetch"))
               /\ (d.uploads > c.uploads =>
                     d.item = [ItemOf(c.cid) EXCEPT !.likeCount = c.likeCount,
                                                    !.commentCount = c.commentCount])
               /\ (d.updates > c.updates =>
                     d.ledgerArg = CidOf(c.item))
               /\ (ledgerPtr'[p] # ledgerPtr[p] =>
                     /\ c.pc = "ledger"
                     /\ ledgerPtr'[p] = c.ledgerArg)
               /\ ((bottles[p].loaded
                    /\ bottles'[p].currentIpfsHash # bottles[p].currentIpfsHash) =>
                     /\ c.pc = "write"
                     /\ bottles'[p].currentIpfsHash = c.ledgerArg)
       /\ \A h \in Cids :
            cache'[h] # cache[h] =>
              \E p \in Procs :
                /\ calls'[p].pc # calls[p].pc
                /\ h = IF calls[p].pc = "idle" THEN calls'[p].cid ELSE calls[p].cid]_vars

\* Both bottles have a sync in flight from different hashes, each having
\* fetched its base; bottle 1 has been liked or unliked since its call started.
C8_Witness ==
    /\ calls[1].pc = "write"
    /\ calls[2].pc = "upload"
    /\ calls[1].cid # calls[2].cid
    /\ calls[1].fetches = 1
    /\ calls[2].fetches = 1
    /\ bottles[1].likeCount # calls[1].likeCount
    /\ bottles[2].likeCount > 0

\* C8 (as stated): whatever the two bottles hold, a step on one leaves the
\* other's tracker entry, contract pointer and call as they were, and every
\* syncBottleCounts call makes the store calls it makes running alone: it
\* fetches its base from the gateway and uploads the base with its counts.
C8_AnyInterleaving ==
    [][/\ \A a \in Ids, b \in Ids :
            a # b =>
              \/ <<bottles'[a], ledgerPtr'[a], calls'[a]>> = <<bottles[a], ledgerPtr[a], calls[a]>>
              \/ <<bottles'[b], ledgerPtr'[b], calls'[b]>> = <<bottles[b], ledgerPtr[b], calls[b]>>
       /\ \A p \in Procs :
            LET c == calls[p]
                d == calls'[p]
            IN /\ ((c.pc = "idle" /\ d.pc # "idle") =>
                     /\ d.cid = bottles[p].currentIpfsHash
                     /\ d.pc = "fetch")
               /\ (d.uploads > c.uploads =>
                     /\ c.fetches = 1
                     /\ d.item = [ItemOf(c.cid) EXCEPT !.likeCount = c.likeCount,
                                                       !.commentCount = c.commentCount])]_vars

---------------------------------------------------------------------------
(* The StateTracker's own properties, over SpecTracker *)

\* C7: a load, incrementLikes, decrementLikes, incrementComments or
\* updateIPFSHash on bottle a, throwing or not, leaves the entry of every
\* other bottle b exactly as it was: loaded or not, likeCount, commentCount
\* and currentIpfsHash.
C7_TrackerIsolation ==
    [][/\ last'.op \in {"load", "incrementLikes", "decrementLikes",
                        "incrementComments", "updateIPFSHash"}
       /\ \A b \in Ids : b # last'.id => bottles'[b] = bottles[b]]_vars

\* Bottle a has just been re-loaded with the comment hash and zero counts
\* while its sibling holds its own hash and the highest counts.
C7_Witness ==
    /\ last.op = "load"
    /\ last.h = CommentCid
    /\ last.l = 0
    /\ \E b \in Ids :
         /\ b # last.id
         /\ bottles[b].loaded
         /\ bottles[b].likeCount = MaxCount
         /\ bottles[b].commentCount = MaxCount
         /\ bottles[b].currentIpfsHash = InitCid(b)

\* C9: decrementLikes on a loaded bottle with likeCount n stores and returns
\* n - 1 when n > 0 and 0 when n = 0, so never a negative number; the value it
\* returns is the stored likeCount; nothing else of the entry changes.
C9_DecrementLikesFloor ==
    [][(last'.op = "decrementLikes" /\ last'.err = "") =>
         LET id == last'.id
             n == bottles[id].likeCount
         IN /\ bottles[id].loaded
            /\ bottles'[id].likeCount = IF n > 0 THEN n - 1 ELSE 0
            /\ bottles'[id].likeCount >= 0
            /\ last'.ret = bottles'[id].likeCount
            /\ bottles' = [bottles EXCEPT ![id].likeCount = bottles'[id].likeCount]]_vars

\* decrementLikes has just returned 0 for a bottle that keeps its comments.
C9_Witness ==
    /\ last.op = "decrementLikes"
    /\ last.err = ""
    /\ last.ret = 0
    /\ bottles[last.id].likeCount = 0
    /\ bottles[last.id].commentCount > 0

\* C10: after load(id, h, l, c) the entry of id is exactly (h, l, c), whatever
\* it held before, and loading again with the same arguments changes nothing.
C10_LoadReplaces ==
    [][last'.op = "load" =>
         LET id == last'.id
             entry == [loaded |-> TRUE, likeCount |-> last'.l,
                       commentCount |-> last'.c, currentIpfsHash |-> last'.h]
         IN /\ bottles'[id] = entry
            /\ bottles' = [bottles EXCEPT ![id] = entry]
            /\ TrackerLoad(bottles', id, last'.h, last'.l, last'.c) = bottles'
            /\ (last = last' => bottles' = bottles)]_vars

\* A bottle has just been loaded with lower counts than a sibling holds and
\* with a hash other than its first one.
C10_Witness ==
    /\ last.op = "load"
    /\ last.l = 1
    /\ last.c = 0
    /\ last.h # InitCid(last.id)
    /\ bottles[last.id] = [loaded |-> TRUE, likeCount |-> 1, commentCount |-> 0,
                           currentIpfsHash |-> last.h]

\* C12: updateIPFSHash changes the bottle's currentIpfsHash and nothing else;
\* incrementLikes and decrementLikes change its likeCount and nothing else;
\* incrementComments changes its commentCount and nothing else.
C12_TrackerFrame ==
    [][LET id == last'.id
       IN last'.err = "" =>
            /\ (last'.op = "updateIPFSHash" =>
                  /\ bottles' = [bottles EXCEPT ![id].currentIpfsHash = last'.h]
                  /\ bottles'[id].likeCount = bottles[id].likeCount
                  /\ bottles'[id].commentCount = bottles[id].commentCount)
            /\ (last'.op = "incrementLikes" =>
                  bottles' = [bottles EXCEPT ![id].likeCount = @ + 1])
            /\ (last'.op = "decrementLikes" =>
                  /\ bottles' = [bottles EXCEPT ![id].likeCount = bottles'[id].likeCount]
                  /\ bottles'[id].likeCount <= bottles[id].likeCount)
            /\ (last'.op = "incrementComments" =>
                  bottles' = [bottles EXCEPT ![id].commentCount = @ + 1])]_vars

\* updateIPFSHash has just given a bottle with likes and comments another hash.
C12_Witness ==
    /\ last.op = "updateIPFSHash"
    /\ last.err = ""
    /\ last.h = CommentCid
    /\ bottles[last.id].currentIpfsHash = CommentCid
    /\ bottles[last.id].likeCount = MaxCount
    /\ bottles[last.id].commentCount = 1

---------------------------------------------------------------------------
(* Bottles that were never loaded, over SpecPromote *)

\* C11: on a bottle that has never been loaded, get, incrementLikes,
\* decrementLikes, incrementComments, updateIPFSHash, syncBottleCounts and
\* promote each throw the not-loaded error in the step they are called:
\* the tracker is unchanged (no entry appears, no other bottle changes), no
\* call goes in flight, so nothing is fetched, uploaded or sent to the
\* contract, and the cache and the contract are as they were.  Only a bottle
\* that is not loaded fails this way.
C11_NotLoadedFails ==
    [][/\ (/\ last'.op \in {"get", "incrementLikes", "decrementLikes", "incrementComments",
                            "updateIPFSHash", "syncBottleCounts", "promote"}
           /\ last'.id \in Ids
           /\ ~bottles[last'.id].loaded)
          => /\ last'.err = "NotLoaded"
             /\ bottles' = bottles
             /\ calls' = calls
             /\ cache' = cache
             /\ ledgerPtr' = ledgerPtr
             /\ isForever' = isForever
       /\ \A p \in Procs :
            (calls[p].pc = "idle" /\ calls'[p].pc # "idle") =>
               /\ calls'[p].id \in Ids
               /\ bottles[calls'[p].id].loaded
       /\ (last'.err = "NotLoaded" /\ last' # last) =>
               ~bottles[last'.id].loaded]_vars

\* promote has just thrown not-loaded for one bottle while the service is
\* initialized and the other bottle is loaded and meets the thresholds.
C11_Witness ==
    /\ last.op = "promote"
    /\ last.err = "NotLoaded"
    /\ ~bottles[last.id].loaded
    /\ initialized
    /\ \E b \in Ids : bottles[b].loaded /\ MeetsThreshold(b)

---------------------------------------------------------------------------
(* The cache over time, over SpecCache *)

\* C13 (amended): an entry stored at time T is returned unmodified, with no
\* fetch and no change to the cache (so no later expiry), by every lookup at
\* a time up to and including T + CacheExpirationMs, and is evicted and
\* fetched again by every lookup at a later time.
C13_CacheExpiry ==
    [][\A p \in Procs, cid \in Cids :
         (/\ initialized /\ client
          /\ cache[cid].present
          /\ \/ GetItemStart(p, cid)
             \/ \E id \in Ids : bottles[id] # NotLoaded
                                 /\ bottles[id].currentIpfsHash = cid /\ SyncStart(p, id))
         => /\ cache[cid].expiresAt = cache[cid].timestamp + CacheExpirationMs
            /\ cache[cid].data = ItemOf(cid)
            /\ IF now <= cache[cid].timestamp + CacheExpirationMs
               THEN /\ cache' = cache
                    /\ calls'[p].fetches = 0
                    /\ \/ /\ calls'[p].pc = "idle"
                          /\ last'.op = "getItem" /\ last'.err = ""
                          /\ last'.ret = CidOf(cache[cid].data)
                       \/ /\ calls'[p].pc = "got"
                          /\ calls'[p].item = cache[cid].data
               ELSE /\ ~cache'[cid].present
                    /\ calls'[p].pc = "fetch" /\ calls'[p].fetches = 1]_vars

\* getItem has just answered from the cache at the very instant expiresAt of
\* an entry stored earlier.
C13_Witness ==
    \E cid \in Cids :
        /\ last.op = "getItem" /\ last.err = "" /\ last.ret = cid
        /\ cache[cid].present
        /\ cache[cid].timestamp < now
        /\ now = cache[cid].timestamp + CacheExpirationMs

\* C13 as stated: a lookup at a time before T + CacheExpirationMs answers
\* from the cache, one at that instant or later finds the entry absent.
C13_AbsentFromExpiresAt ==
    [][\A p \in Procs, cid \in Cids :
         (/\ initialized /\ client
          /\ cache[cid].present
          /\ GetItemStart(p, cid))
         => IF now < cache[cid].timestamp + CacheExpirationMs
            THEN cache' = cache /\ calls'[p].pc = "idle" /\ last'.err = ""
            ELSE ~cache'[cid].present /\ calls'[p].pc = "fetch"]_vars

\* C14: a getItem that misses the cache and whose fetch fails (transport
\* error or non-OK response) or returns a payload that fails validation throws
\* an IPFSError, and the call has changed nothing in the cache but the lazy
\* eviction of an expired entry for its own hash.
C14_FailedFetchKeepsCache ==
    [][\A p \in Procs :
         /\ (calls[p].pc = "idle" /\ calls'[p].pc = "fetch")
            => \A h \in Cids :
                  \/ cache'[h] = cache[h]
                  \/ /\ h = calls'[p].cid
                     /\ cache[h].present /\ now > cache[h].expiresAt
                     /\ ~cache'[h].present
         /\ \A ok \in BOOLEAN :
               (FetchDone(p, ok) /\ (~ok \/ ~ValidItem(ItemOf(calls[p].cid))))
               => /\ calls'[p].pc = "idle"
                  /\ last'.op = IF calls[p].op = "sync" THEN "syncBottleCounts" ELSE "getItem"
                  /\ last'.err \in IPFSErrorCode
                  /\ last'.ret = NoRet
                  /\ cache' = cache
                  /\ ~cache'[calls[p].cid].present]_vars

\* getItem has just thrown on a payload that fails validation, another hash
\* being cached, the failed one not.
C14_Witness ==
    /\ last.op = "getItem" /\ last.err = "FETCH_FAILED" /\ last.cause = "PARSE_FAILED"
    /\ ~cache[BadCid].present
    /\ \E h \in Cids : cache[h].present

\* C15: when the fetched payload fails validation, the error the caller of
\* getItem observes has the code PARSE_FAILED, unlike the one of a transport
\* failure, and the payload is not cached.
C15_ParseFailedSurfaced ==
    [][\A p \in Procs :
         (FetchDone(p, TRUE) /\ ~ValidItem(ItemOf(calls[p].cid)))
         => /\ last'.err = "PARSE_FAILED"
            /\ cache' = cache
            /\ ~cache'[calls[p].cid].present]_vars

\* C16: no write error removes a cache entry: when updateBottleCounts fails
\* at the upload, the entry of the original hash that was in the cache before
\* the call (the call read the bottle from it, and nobody has cleared the
\* cache since) is still there after the call.
C16_WriteErrorKeepsEntry ==
    [][\A p \in Procs :
         (/\ UploadDone(p, FALSE)
          /\ calls[p].fetches = 0
          /\ calls[p].cacheAlone)
         => /\ last'.err = "UPLOAD_FAILED"
            /\ cache'[calls[p].cid].present]_vars

\* C17: a lookup of hash h that finds an unexpired entry leaves the whole
\* cache as it is and starts no fetch; one that finds an expired entry removes
\* the entry of h and nothing else; no lookup changes the entry of another
\* hash.
C17_LookupFrame ==
    [][\A p \in Procs, h \in Cids :
         (/\ initialized /\ client
          /\ \/ GetItemStart(p, h)
             \/ \E id \in Ids : bottles[id] # NotLoaded
                                 /\ bottles[id].currentIpfsHash = h /\ SyncStart(p, id))
         => /\ \A g \in Cids \ {h} : cache'[g] = cache[g]
            /\ (cache[h].present /\ ~(now > cache[h].expiresAt))
               => /\ cache' = cache
                  /\ calls'[p].pc # "fetch" /\ calls'[p].fetches = 0
            /\ (cache[h].present /\ now > cache[h].expiresAt)
               => cache' = [cache EXCEPT ![h] = NoEntry]
            /\ ~cache[h].present => cache' = cache]_vars

\* getItem has just answered from an entry stored earlier, and the expired
\* entry of another hash is still in the cache.
C17_Witness ==
    \E h \in Cids, g \in Cids :
        /\ g # h
        /\ last.op = "getItem" /\ last.err = "" /\ last.ret = h
        /\ cache[h].present /\ cache[h].timestamp < now
        /\ cache[g].present /\ now > cache[g].expiresAt

---------------------------------------------------------------------------
(* Promotion, over SpecPromote *)

\* C18: when a loaded bottle's likeCount is below thresholds.likes or its
\* commentCount below thresholds.comments, promote returns at once: it calls
\* neither getBottle nor markBottleAsForever and changes neither the tracker
\* nor the contract; so a promote call that has made a contract call is on a
\* bottle with both thresholds met.
C18_BelowThresholdNoLedgerCall ==
    [][/\ \A p \in Procs, id \in Ids :
            (/\ PromoteStart(p, id)
             /\ bottles[id] # NotLoaded
             /\ \/ bottles[id].likeCount < Thresholds.likes
                \/ bottles[id].commentCount < Thresholds.comments)
            => /\ calls'[p] = IdleCall
               /\ last'.op = "promote" /\ last'.id = id
               /\ last'.err = "" /\ last'.ret = 0
               /\ bottles' = bottles
               /\ isForever' = isForever /\ ledgerPtr' = ledgerPtr
       /\ \A p \in Procs :
            (calls'[p].op = "promote" /\ calls'[p].reads + calls'[p].marks > 0)
            => /\ bottles'[calls'[p].id] # NotLoaded
               /\ bottles'[calls'[p].id].likeCount >= Thresholds.likes
               /\ bottles'[calls'[p].id].commentCount >= Thresholds.comments]_vars

\* promote has just returned without a markBottleAsForever on a bottle that
\* is not forever and has the likes but one comment too few.
C18_Witness ==
    /\ last.op = "promote" /\ last.err = "" /\ last.ret = 0
    /\ bottles[last.id] # NotLoaded
    /\ bottles[last.id].likeCount >= Thresholds.likes
    /\ bottles[last.id].commentCount = Thresholds.comments - 1
    /\ ~isForever[last.id]

\* C19: once the contract reports a bottle that meets the thresholds as
\* forever, it reports so from then on, and every promote call that reads the
\* flag returns without calling markBottleAsForever: a promote call makes
\* that call only in a step where getBottle has reported isForever = false.
C19_PromotedNeverMarkedAgain ==
    [][/\ \A id \in Ids : isForever[id] => isForever'[id]
       /\ \A p \in Procs :
            /\ (GetBottleDone(p, TRUE) /\ isForever[calls[p].id])
               => /\ calls'[p] = IdleCall
                  /\ last'.op = "promote" /\ last'.id = calls[p].id
                  /\ last'.err = "" /\ last'.ret = 0
                  /\ isForever' = isForever
            /\ (calls'[p].op = "promote" /\ calls'[p].marks > calls[p].marks)
               => /\ calls[p].pc = "getBottle"
                  /\ ~isForever[calls[p].id]]_vars

\* promote has just returned without a markBottleAsForever on a bottle that
\* meets the thresholds and is forever.
C19_Witness ==
    /\ last.op = "promote" /\ last.err = "" /\ last.ret = 0
    /\ bottles[last.id] # NotLoaded
    /\ MeetsThreshold(last.id)
    /\ isForever[last.id]

\* C20: with likeCount >= thresholds.likes and commentCount >=
\* thresholds.comments, equality included, promote calls getBottle once, and
\* when that reports isForever = false it calls markBottleAsForever once and
\* returns when that call settles; no promote call makes either call twice.
C20_PromotesExactlyOnce ==
    [][\A p \in Procs :
         /\ \A id \in Ids :
              (/\ PromoteStart(p, id)
               /\ bottles[id] # NotLoaded
               /\ bottles[id].likeCount >= Thresholds.likes
               /\ bottles[id].commentCount >= Thresholds.comments)
              => /\ calls'[p].pc = "getBottle" /\ calls'[p].id = id
                 /\ calls'[p].reads = 1 /\ calls'[p].marks = 0
         /\ (GetBottleDone(p, TRUE) /\ ~isForever[calls[p].id])
            => /\ calls'[p].pc = "mark"
               /\ calls'[p].reads = 1 /\ calls'[p].marks = 1
         /\ \A ok \in BOOLEAN :
              MarkDone(p, ok)
              => /\ calls'[p] = IdleCall
                 /\ last'.op = "promote" /\ last'.ret = 1
                 /\ last'.err = IF ok THEN "" ELSE "LedgerCallFailed"
                 /\ isForever'[calls[p].id] = (ok \/ isForever[calls[p].id])
         /\ calls'[p].reads <= 1 /\ calls'[p].marks <= 1]_vars

\* promote has just returned from its one markBottleAsForever on a bottle
\* whose counts are exactly the thresholds.
C20_Witness ==
    /\ last.op = "promote" /\ last.err = "" /\ last.ret = 1
    /\ bottles[last.id] # NotLoaded
    /\ bottles[last.id].likeCount = Thresholds.likes
    /\ bottles[last.id].commentCount = Thresholds.comments
    /\ isForever[last.id]

\* C21: forever is terminal: once the contract holds isForever = true for a
\* bottle, no step of load, the counter mutators, syncBottleCounts or promote
\* sets it back to false; the flag changes only when the markBottleAsForever
\* of a promote call on that bottle is mined, and then to true.
C21_ForeverIsTerminal ==
    [][\A id \in Ids :
         /\ isForever[id] => isForever'[id]
         /\ isForever'[id] # isForever[id]
            => \E p \in Procs :
                  /\ calls[p].op = "promote" /\ calls[p].pc = "mark"
                  /\ calls[p].id = id
                  /\ calls'[p] = IdleCall]_vars

\* promote has just returned on a bottle that is forever and whose counts
\* have since been taken below the thresholds.
C21_Witness ==
    /\ last.op = "promote" /\ last.err = "" /\ last.ret = 0
    /\ bottles[last.id] # NotLoaded
    /\ isForever[last.id]
    /\ bottles[last.id].likeCount < Thresholds.likes

\* C22: a ForeverManager constructed without thresholds uses 100 likes and 4
\* comments, one constructed with one of the two uses the default for the
\* other and the given value for the one given, and this.thresholds never
\* changes afterwards.
C22_DefaultThresholds ==
    /\ last.op = "ForeverManager"
    /\ thresholds.likes = (IF last.l = Undef THEN 100 ELSE last.l)
    /\ thresholds.comments = (IF last.c = Undef THEN 4 ELSE last.c)
    /\ [][thresholds' = thresholds]_vars

\* A ForeverManager given its likes threshold alone has just promoted a
\* bottle with that many likes and 4 comments.
C22_Witness ==
    /\ thresholds = [likes |-> Thresholds.likes, comments |-> 4]
    /\ last.op = "promote" /\ last.err = "" /\ last.ret = 1
    /\ bottles[last.id] # NotLoaded
    /\ bottles[last.id].likeCount = Thresholds.likes
    /\ bottles[last.id].commentCount = 4
    /\ isForever[last.id]

---------------------------------------------------------------------------
(* The singleton accessor, over SpecSingleton *)

\* C23: between two resetIPFSService calls every getIPFSService call,
\* overlapping ones included, resolves to the same IPFSService, and at most
\* one is created: no call constructs a service while another call that no
\* reset has passed is creating one, and a call that resolves when
\* defaultInstance is set resolves to it and leaves it as it is.
C23_Singleton ==
    [][\A p \in Procs :
         /\ Len(instances') > Len(instances) /\ calls'[p].pc = "create" /\ calls[p].pc = "idle"
            => /\ defaultInstance = NoInstance
               /\ \A q \in Procs \ {p} : ~(calls[q].pc = "create" /\ calls[q].resetAlone)
         /\ (/\ calls[p].pc \in {"idle", "create"}
             /\ calls'[p].pc = "idle"
             /\ calls[p].resetAlone
             /\ last' # last /\ last'.op = "getIPFSService" /\ last'.err = ""
             /\ defaultInstance # NoInstance)
            => /\ last'.ret = defaultInstance
               /\ defaultInstance' = defaultInstance]_vars

---------------------------------------------------------------------------
(* The service before initialize(), over SpecUse *)

\* C24: while initialize() has not succeeded, uploadBottle, uploadComment,
\* updateBottleCounts, getItem and login all fail with NOT_INITIALIZED
\* without a store call, and the cache is and stays empty.
C24_NotInitializedFails ==
    [][\A p \in Procs :
         (/\ ~initialized
          /\ \/ \E b \in Ids : UploadStart(p, "uploadBottle", b)
             \/ UploadStart(p, "uploadComment", 0)
             \/ LoginStart(p)
             \/ \E cid \in Cids : GetItemStart(p, cid)
             \/ \E id \in Ids : bottles[id] # NotLoaded /\ SyncStart(p, id))
         => /\ last'.err = "NOT_INITIALIZED"
            /\ calls'[p] = IdleCall
            /\ \A h \in Cids : ~cache[h].present
            /\ cache' = cache]_vars

---------------------------------------------------------------------------
(* The store write of a sync, over Spec *)

\* C25: updateBottleCounts(originalCid, l, c) on the hash of a bottle uploads
\* a payload with the original's type and content and with likeCount = l and
\* commentCount = c, and returns the hash the store gives that payload; the
\* payload under originalCid, in the store and in the cache, stays what it
\* was.
C25_UpdateBottleCountsPayload ==
    [][\A p \in Procs :
         /\ (UpdateBottleCountsResume(p) /\ calls[p].item.type = "bottle")
            => /\ calls[p].item = ItemOf(calls[p].cid)
               /\ calls'[p].pc = "upload"
               /\ calls'[p].item.type = "bottle"
               /\ calls'[p].item.base = ItemOf(calls[p].cid).base
               /\ calls'[p].item.likeCount = calls[p].likeCount
               /\ calls'[p].item.commentCount = calls[p].commentCount
         /\ (UploadDone(p, TRUE) /\ calls[p].op = "sync")
            => /\ calls'[p].newCid = CidOf(calls[p].item)
               /\ calls'[p].ledgerArg = calls'[p].newCid
               /\ ItemOf(calls'[p].newCid) = calls[p].item
               /\ ItemOf(calls[p].cid).type = "bottle"
               /\ calls'[p].item = calls[p].item
         /\ \A h \in Cids : cache'[h].present => cache'[h].data = ItemOf(h)]_vars

\* updateBottleCounts has returned the hash of a payload that differs from
\* the original in both counts and in nothing else.
C25_Witness ==
    \E p \in Procs :
        /\ calls[p].op = "sync" /\ calls[p].pc = "ledger"
        /\ calls[p].newCid # calls[p].cid
        /\ ItemOf(calls[p].newCid).base = ItemOf(calls[p].cid).base
        /\ ItemOf(calls[p].newCid).likeCount # ItemOf(calls[p].cid).likeCount
        /\ ItemOf(calls[p].newCid).commentCount # ItemOf(calls[p].cid).commentCount

---------------------------------------------------------------------------
(* The comment-count-only sync, over SpecComment *)

\* C26: in syncBottleCommentCount the likeCount flows neither to the store
\* nor to the contract: two runs from tracker states that differ in likeCount
\* alone pass the same hash and commentCount to the store, upload the same
\* payload (its likeCount the stored one), pass the same hash to the
\* contract, and once both have succeeded the two tracker pointers and the
\* two contract pointers are the same.
C26_LikesDoNotFlow ==
    /\ \A p \in Procs, q \in Procs :
          (calls[p].pc # "idle" /\ calls[q].pc # "idle")
          => /\ calls[p].cid = calls[q].cid
             /\ calls[p].commentCount = calls[q].commentCount
             /\ (calls[p].uploads > 0 /\ calls[q].uploads > 0)
                => /\ calls[p].item = calls[q].item
                   /\ calls[p].item.likeCount = ItemOf(calls[p].cid).likeCount
             /\ (calls[p].updates > 0 /\ calls[q].updates > 0)
                => calls[p].ledgerArg = calls[q].ledgerArg
    /\ (/\ Loaded(1) /\ Loaded(2)
        /\ bottles[1].currentIpfsHash # InitCid(1)
        /\ bottles[2].currentIpfsHash # InitCid(1))
       => /\ bottles[1].currentIpfsHash = bottles[2].currentIpfsHash
          /\ ledgerPtr[1] = ledgerPtr[2]
          /\ ledgerPtr[1] = bottles[1].currentIpfsHash

\* Both runs have succeeded, from different likeCounts, both different from
\* the stored one.
C26_Witness ==
    /\ Loaded(1) /\ Loaded(2)
    /\ bottles[1].currentIpfsHash # InitCid(1)
    /\ bottles[2].currentIpfsHash = bottles[1].currentIpfsHash
    /\ ledgerPtr[1] = ledgerPtr[2]
    /\ bottles[1].likeCount # bottles[2].likeCount
    /\ bottles[1].likeCount # ItemOf(InitCid(1)).likeCount
    /\ \A p \in Procs : calls[p].pc = "idle"

\* C27: under any interleaving of load, the mutations and overlapping syncs,
\* the pointer the tracker holds for a loaded bottle is the hash of the most
\* recent load or a hash for which an updateBottleIPFS of that bottle completed
\* successfully. The pointer is set only by a load, to the hash supplied, or
\* by the last statement of a sync whose contract call was acknowledged, to the
\* hash that call gave the contract; and an acknowledgement is recorded only in
\* the step in which the contract takes that hash for that bottle.
C27_PointerLoadedOrAcknowledged ==
    /\ \A p \in Procs : calls[p].pc = "write" => calls[p].acked
    /\ [][/\ \A id \in Ids :
              (/\ bottles'[id].loaded
               /\ \/ ~bottles[id].loaded
                  \/ bottles'[id].currentIpfsHash # bottles[id].currentIpfsHash)
              => \/ Load(id, bottles'[id].currentIpfsHash,
                         bottles'[id].likeCount, bottles'[id].commentCount)
                 \/ \E p \in Procs :
                        /\ SyncWrite(p)
                        /\ calls[p].id = id
                        /\ calls[p].acked
                        /\ calls[p].ledgerArg = bottles'[id].currentIpfsHash
          /\ \A p \in Procs :
              (calls'[p].acked /\ ~calls[p].acked)
              => /\ calls[p].pc = "ledger"
                 /\ calls'[p].pc = "write"
                 /\ calls'[p].id = calls[p].id
                 /\ calls'[p].ledgerArg = calls[p].ledgerArg
                 /\ calls'[p].newCid = calls[p].ledgerArg
                 /\ ledgerPtr'[calls[p].id] = calls[p].ledgerArg
          /\ \A p \in Procs :
              (calls[p].pc = "write" /\ calls'[p].pc = "write")
              => /\ calls'[p].acked
                 /\ calls'[p].id = calls[p].id
                 /\ calls'[p].ledgerArg = calls[p].ledgerArg]_vars

\* Two overlapping syncs have both completed and the tracker holds a hash that
\* is neither the loaded one nor the contract's: one the contract took earlier.
C27_Witness ==
    /\ Quiet
    /\ bottles[1].loaded
    /\ bottles[1].currentIpfsHash # InitCid(1)
    /\ bottles[1].currentIpfsHash # ledgerPtr[1]

\* C28: if the contract's pointer for a bottle equals the hash the bottle was
\* loaded with and syncBottleCounts is called on it one call at a time, then
\* whenever no call is in flight the tracker's pointer equals the contract's,
\* after successful and after failed calls alike. Stated as the agreement
\* every step keeps: with no call past its contract update the two pointers
\* are equal, and from the contract update to the tracker write the contract
\* holds the hash the call is about to write. A load with the contract's
\* pointer establishes the agreement, every step other than a load keeps it.
C28_PointersAgreeWhenQuiet ==
    [][\A id \in LoadIds : \A p \in SyncProcs :
        LET AgreeOn(b, lp, c) ==
                b.loaded =>
                    IF c.pc = "write" /\ c.id = id
                    THEN lp = c.newCid
                    ELSE b.currentIpfsHash = lp
            LoadStep == Load(id, bottles'[id].currentIpfsHash,
                             bottles'[id].likeCount, bottles'[id].commentCount)
        IN  (\/ AgreeOn(bottles[id], ledgerPtr[id], calls[p]) /\ ~LoadStep
             \/ LoadStep /\ bottles'[id].currentIpfsHash = ledgerPtr[id])
            => AgreeOn(bottles'[id], ledgerPtr'[id], calls'[p])]_vars

\* A sync succeeded, a later one failed at the contract, and with no call in
\* flight both pointers are the hash the successful one wrote.
C28_Witness ==
    /\ Quiet
    /\ last.op = "syncBottleCounts"
    /\ last.err = "LedgerCallFailed"
    /\ bottles[1].loaded
    /\ bottles[1].currentIpfsHash = ledgerPtr[1]
    /\ ledgerPtr[1] # InitCid(1)

\* C29, as claimed: when two syncBottleCounts calls on one bottle overlap and
\* both succeed, then once both have completed the tracker's pointer equals
\* the contract's pointer and the payload at that pointer carries the
\* tracker's current counts. Taken at the step that completes the second
\* call right after the first one returned.
C29_OverlapConsistent ==
    [][\A q \in Procs :
        (/\ last.op = "syncBottleCounts" /\ last.err = "" /\ last.id = 1
         /\ calls[q].pc = "write" /\ calls[q].id = 1
         /\ SyncWrite(q)
         /\ last'.err = "")
        => /\ bottles'[1].currentIpfsHash = ledgerPtr'[1]
           /\ ItemOf(bottles'[1].currentIpfsHash).likeCount = bottles'[1].likeCount
           /\ ItemOf(bottles'[1].currentIpfsHash).commentCount
                  = bottles'[1].commentCount]_vars

\* C29, as the code has it: once both overlapping calls have completed, the
\* tracker's pointer is the hash uploaded by the call that completed last and
\* the payload at it carries the counts that call read when it started; the
\* contract's pointer is the hash of that call or of the other one, whichever
\* updateBottleIPFS was mined last.
C29_LastWriterWins ==
    [][\A q \in Procs :
        (/\ last.op = "syncBottleCounts" /\ last.err = "" /\ last.id = 1
         /\ calls[q].pc = "write" /\ calls[q].id = 1
         /\ SyncWrite(q)
         /\ last'.err = "")
        => /\ bottles'[1].currentIpfsHash = calls[q].newCid
           /\ ItemOf(bottles'[1].currentIpfsHash).likeCount = calls[q].likeCount
           /\ ItemOf(bottles'[1].currentIpfsHash).commentCount = calls[q].commentCount
           /\ ledgerPtr'[1] \in {calls[q].newCid, bottles[1].currentIpfsHash}
           /\ bottles'[1].likeCount = bottles[1].likeCount
           /\ bottles'[1].commentCount = bottles[1].commentCount]_vars

\* The first of two overlapping calls has returned, the second is about to
\* write the tracker: the contract holds the first call's hash, and the
\* second call's payload has fewer likes than the tracker.
C29_Witness ==
    \E q \in Procs :
        /\ last.op = "syncBottleCounts" /\ last.err = "" /\ last.id = 1
        /\ calls[q].pc = "write" /\ calls[q].id = 1
        /\ bottles[1].loaded
        /\ ledgerPtr[1] = bottles[1].currentIpfsHash
        /\ calls[q].newCid # ledgerPtr[1]
        /\ ItemOf(calls[q].newCid).likeCount < bottles[1].likeCount

\* C30: the payload a syncBottleCounts call leaves at the tracker's pointer
\* carries the counts the call read from the tracker when it started, so a
\* mutation made while the call was in flight leaves the tracker ahead of that
\* payload; and when a successful call completes with the tracker's counts as
\* they were at its start (no mutation interleaved), the payload at the
\* tracker's pointer has the tracker's likeCount and commentCount.
C30_Reconciliation ==
    [][\A p \in SyncProcs :
        (calls[p].pc = "write" /\ SyncWrite(p) /\ last'.err = "")
        => LET c == calls[p]
               snapshot == ItemOf(bottles'[c.id].currentIpfsHash)
           IN /\ snapshot.likeCount = c.pre.likeCount
              /\ snapshot.commentCount = c.pre.commentCount
              /\ bottles'[c.id].likeCount = bottles[c.id].likeCount
              /\ bottles'[c.id].commentCount = bottles[c.id].commentCount
              /\ (/\ bottles[c.id].likeCount = c.pre.likeCount
                  /\ bottles[c.id].commentCount = c.pre.commentCount)
                 => /\ snapshot.likeCount = bottles'[c.id].likeCount
                    /\ snapshot.commentCount = bottles'[c.id].commentCount]_vars

\* A sync has just returned successfully and the tracker is ahead of the
\* payload at its pointer in both counts: a like and a comment were added
\* while the call was in flight.
C30_Witness ==
    /\ Quiet
    /\ last.op = "syncBottleCounts" /\ last.err = ""
    /\ bottles[last.id].loaded
    /\ ItemOf(bottles[last.id].currentIpfsHash).likeCount < bottles[last.id].likeCount
    /\ ItemOf(bottles[last.id].currentIpfsHash).commentCount
           < bottles[last.id].commentCount

\* C31: for a bottle whose counts meet both thresholds, with a contract that
\* sets the forever flag when a markBottleAsForever completes, at most one
\* markBottleAsForever is ever issued over any set of promote calls,
\* overlapping ones included: a call issues its request only when the flag is
\* not set and no other call's request for the bottle is under way.
C31_AtMostOnePromotionRequest ==
    [][\A p \in Procs :
        (calls'[p].op = "promote" /\ calls'[p].marks > calls[p].marks)
        => /\ ~isForever[calls'[p].id]
           /\ \A q \in Procs \ {p} :
                ~(/\ calls[q].op = "promote"
                  /\ calls[q].pc = "mark"
                  /\ calls[q].id = calls'[p].id)]_vars

\* C32: BottleManager.likeBottle and addComment run their steps in the order
\* contract record, tracker increment, updateBottleIPFS (the sync),
\* checkAndMarkForever, each started only when the one before has succeeded.
\* The count is incremented, by one, only in the step in which the contract's
\* transaction is mined, and the sync starts in that step; if the transaction
\* fails the call throws with the tracker as it was; if the sync fails the
\* call throws, the increment stays and the call has made no getBottle and no
\* markBottleAsForever; getBottle is called only in the step that completes
\* the sync.
C32_ManagerStepOrder ==
    [][\A p \in SyncProcs :
        LET c == calls[p]
            d == calls'[p]
            b == bottles[c.id]
            InSync == c.pc \in {"fetch", "got", "upload", "ledger", "write"}
        IN  c.op \in {"likeBottle", "addComment"} =>
            /\ (bottles' # bottles /\ c.pc # "write")
               => /\ c.pc = "record"
                  /\ engagements'[c.id][c.op] = engagements[c.id][c.op] + 1
                  /\ bottles' = [bottles EXCEPT
                         ![c.id].likeCount =
                             IF c.op = "likeBottle" THEN @ + 1 ELSE @,
                         ![c.id].commentCount =
                             IF c.op = "addComment" THEN @ + 1 ELSE @]
                  /\ \/ d.pc \in {"fetch", "got"} /\ d.pre = bottles'[c.id]
                     \/ d.pc = "idle" /\ last'.err = "NOT_INITIALIZED"
            /\ (c.pc = "record" /\ d # c /\ engagements' = engagements)
               => /\ bottles' = bottles
                  /\ d = IdleCall
                  /\ last'.op = c.op /\ last'.err = "LedgerCallFailed"
            /\ (c.pc # "record" /\ d.pc \in {"fetch", "got"}) => c.pc = "fetch"
            /\ (InSync /\ c.pc # "write" /\ d.pc = "idle")
               => /\ last'.op = c.op /\ last'.err # ""
                  /\ bottles' = bottles
                  /\ b.likeCount = c.pre.likeCount
                  /\ b.commentCount = c.pre.commentCount
                  /\ c.reads = 0 /\ c.marks = 0
                  /\ isForever' = isForever
            /\ d.reads > c.reads
               => /\ c.pc = "write" /\ c.acked
                  /\ ledgerPtr[c.id] = c.newCid
                  /\ bottles'[c.id].currentIpfsHash = c.newCid
            /\ d.marks > c.marks => c.pc = "getBottle"]_vars

\* likeBottle has thrown because the fetch of its sync failed: the like is
\* counted, both thresholds are met and the bottle is not forever.
C32_Witness ==
    /\ Quiet
    /\ last.op = "likeBottle" /\ last.err = "FETCH_FAILED"
    /\ bottles[1].loaded
    /\ MeetsThreshold(1)
    /\ bottles[1].likeCount = Thresholds.likes
    /\ engagements[1].likeBottle = 1
    /\ ~isForever[1]

\* C33: likeBottle and unlikeBottle on a bottle that is not loaded in the
\* tracker fail with the tracker's not-loaded error only after the contract
\* has recorded the engagement: neither throws before its transaction has
\* settled, and when the transaction is mined the call throws with the like
\* or unlike recorded by the contract, the tracker and the cache unchanged, no
\* upload made, the contract's hash and forever flag untouched and no
\* getBottle or markBottleAsForever made.
C33_NotLoadedAfterLedgerRecord ==
    [][\A p \in SyncProcs :
        LET c == calls[p]
            d == calls'[p]
        IN  /\ (/\ c.op \in {"likeBottle", "unlikeBottle"}
                /\ c.pc = "record" /\ d # c
                /\ ~bottles[c.id].loaded)
               => /\ d = IdleCall
                  /\ last'.op = c.op
                  /\ IF engagements' = engagements
                     THEN last'.err = "LedgerCallFailed"
                     ELSE /\ last'.err = "NotLoaded"
                          /\ engagements' =
                                [engagements EXCEPT ![c.id][c.op] = @ + 1]
                  /\ bottles' = bottles
                  /\ cache' = cache
                  /\ ledgerPtr' = ledgerPtr
                  /\ isForever' = isForever
                  /\ c.fetches = 0 /\ c.uploads = 0 /\ c.updates = 0
                  /\ c.reads = 0 /\ c.marks = 0
            /\ (/\ last'.op \in {"likeBottle", "unlikeBottle"}
                /\ last'.err = "NotLoaded"
                /\ last' # last)
               => /\ c.pc = "record"
                  /\ c.op = last'.op
                  /\ engagements'[c.id][c.op] = engagements[c.id][c.op] + 1
                  /\ ~bottles[c.id].loaded]_vars

\* unlikeBottle has thrown the not-loaded error for bottle 1, which the
\* tracker does not hold, and the contract has the unlike on record.
C33_Witness ==
    /\ Quiet
    /\ last.op = "unlikeBottle" /\ last.err = "NotLoaded"
    /\ ~bottles[1].loaded
    /\ engagements[1].unlikeBottle = 1
    /\ engagements[1].likeBottle = 0

\* C34: promotion is reached through the manager. Whenever a likeBottle or
\* addComment call, the calls on the bottle not overlapping, returns
\* successfully and the tracker's counts of the bottle then meet both
\* thresholds, the contract's isForever flag of the bottle is true; and an
\* unlikeBottle call never calls getBottle or markBottleAsForever and no step
\* of it changes the flag.
C34_PromotionThroughManager ==
    [][\A p \in SyncProcs :
        LET c == calls[p]
            d == calls'[p]
        IN  /\ (/\ c.op \in {"likeBottle", "addComment"}
                /\ d = IdleCall
                /\ last'.op = c.op /\ last'.err = ""
                /\ bottles'[c.id].likeCount >= thresholds.likes
                /\ bottles'[c.id].commentCount >= thresholds.comments)
               => /\ bottles'[c.id].loaded
                  /\ isForever'[c.id]
                  /\ c.reads = 1
            /\ (c.op = "unlikeBottle" \/ d.op = "unlikeBottle")
               => /\ d.reads = 0 /\ d.marks = 0
                  /\ d.pc \notin {"getBottle", "mark"}
                  /\ isForever' = isForever]_vars

\* addComment has returned successfully, its comment has brought the bottle
\* to both thresholds, and the contract has the bottle as forever.
C34_Witness ==
    /\ Quiet
    /\ last.op = "addComment" /\ last.err = ""
    /\ bottles[1].loaded
    /\ bottles[1].likeCount = Thresholds.likes
    /\ bottles[1].commentCount = Thresholds.comments
    /\ engagements[1].addComment = 1
    /\ isForever[1]

\* C35: two overlapping getItem calls for one hash on a cold cache each make
\* their own fetch and each return the payload they fetched; the cache holds
\* one entry for the hash, which every successful call replaces whole with the
\* payload it fetched and the expiry counted from its own store time, so after
\* both it is the entry of the call that stored last. A call that finds no
\* live entry fetches, also when another call is fetching the same hash.
C35_OverlappingFetches ==
    [][\A p \in Procs :
        LET c == calls[p]
            d == calls'[p]
        IN  /\ \A cid \in Cids :
                 (GetItemStart(p, cid) /\ initialized /\ client
                  /\ ~CacheHit(cache, now, cid))
                 => d.pc = "fetch" /\ d.cid = cid /\ d.fetches = 1
            /\ (c.op = "getItem" /\ c.pc = "fetch" /\ d = IdleCall /\ last'.err = "")
               => /\ last'.op = "getItem" /\ last'.ret = c.cid
                  /\ c.fetches = 1
                  /\ cache' = [cache EXCEPT ![c.cid] =
                         [present |-> TRUE, data |-> ItemOf(c.cid), timestamp |-> now,
                          expiresAt |-> now + CacheExpirationMs]]]_vars

\* A getItem call is still fetching a hash for which the cache holds a live
\* entry: the call started on a cold cache, and the other caller's overlapping
\* call for the same hash has just returned and stored what it fetched.
C35_Witness ==
    \E p \in Procs : \E q \in Procs \ {p} :
        /\ calls[p].op = "getItem" /\ calls[p].pc = "fetch"
        /\ calls[q].pc = "idle"
        /\ last.op = "getItem" /\ last.err = "" /\ last.ret = calls[p].cid
        /\ CacheHit(cache, now, calls[p].cid)
        /\ cache[calls[p].cid].timestamp = now
        /\ now > 0

\* C36: in every reachable state every payload the cache holds passed
\* validation when it was fetched: it is an object whose type is bottle or
\* comment, whose message and userId are strings and whose timestamp is a
\* number, and a comment has a numeric bottleId; and an entry enters the cache
\* only in the step in which a fetch of its own hash succeeds, holding what the
\* gateway serves under that hash.
C36_CachedPayloadsAreValid ==
    [][/\ \A cid \in Cids :
            cache'[cid].present
            => LET data == cache'[cid].data
               IN /\ data.typeOf.data = "object"
                  /\ data.type \in {"bottle", "comment"}
                  /\ data.typeOf.message = "string"
                  /\ data.typeOf.userId = "string"
                  /\ data.typeOf.timestamp = "number"
                  /\ data.type = "comment" => data.typeOf.bottleId = "number"
                  /\ data = ItemOf(cid)
       /\ \A cid \in Cids :
            (cache'[cid].present /\ cache'[cid] # cache[cid])
            => \E p \in Procs :
                  /\ calls[p].pc = "fetch" /\ calls[p].cid = cid
                  /\ FetchDone(p, TRUE)
                  /\ calls'[p].pc \in {"idle", "got"}
                  /\ last'.err = ""]_vars

\* The cache holds a bottle and a comment, and getItem has just failed on a
\* payload that does not validate; none of the malformed payloads is cached.
C36_Witness ==
    /\ cache[InitCid(1)].present
    /\ cache[CommentCid].present
    /\ last.op = "getItem" /\ last.err = "FETCH_FAILED" /\ last.cause = "PARSE_FAILED"
    /\ last.ret = NoRet
    /\ \A cid \in MalformedCids \cup {BadCid} : ~cache[cid].present

\* C37: loads supply counts that are non-negative integers, and then, under
\* any sequence of load, incrementLikes, decrementLikes, incrementComments and
\* syncBottleCounts (which ends in updateIPFSHash), every loaded bottle has a
\* likeCount and a commentCount that are integers of at least 0, and a bottle
\* that is loaded is still loaded after every step.
C37_CountsNonNegativeAndStayLoaded ==
    [][\A id \in Ids :
        /\ bottles[id].loaded => bottles'[id].loaded
        /\ bottles'[id].loaded
           => /\ bottles'[id].likeCount \in Nat
              /\ bottles'[id].commentCount \in Nat]_vars

\* A sync has just returned successfully for a bottle that is still loaded
\* and whose likeCount is 0 although the payload the call uploaded carries a
\* likeCount of 1: the like was taken back while the call was in flight.
C37_Witness ==
    /\ Quiet
    /\ last.op = "syncBottleCounts" /\ last.err = ""
    /\ bottles[last.id].loaded
    /\ bottles[last.id].likeCount = 0
    /\ bottles[last.id].commentCount = MaxCount
    /\ ItemOf(bottles[last.id].currentIpfsHash).likeCount = 1

C39_CommentHashFailsBeforeUpload ==
    [][\A p \in Procs :
        /\ (UpdateBottleCountsResume(p) /\ calls[p].item.type = "comment")
           => /\ last'.err = "PARSE_FAILED" /\ last'.cause = ""
              /\ calls'[p] = IdleCall
              /\ calls[p].uploads = 0 /\ calls[p].updates = 0
              /\ cache' = cache
              /\ UNCHANGED <<bottles, ledgerPtr, isForever>>
              /\ calls[p].op = "sync"
                 => /\ last'.op = "syncBottleCounts"
                    /\ bottles'[calls[p].id] = calls[p].pre
        /\ (calls'[p].op = "sync" /\ ItemOf(calls'[p].cid).type = "comment")
           => /\ calls'[p].pc \in {"fetch", "got"}
              /\ calls'[p].uploads = 0 /\ calls'[p].updates = 0
              /\ ~calls'[p].acked]_vars

\* A sync of bottle 1, whose currentIpfsHash is the hash of a comment, has
\* just failed with PARSE_FAILED; the comment getItem fetched is in the cache
\* and the contract holds the hash it held before.
C39_Witness ==
    /\ last.op = "syncBottleCounts" /\ last.err = "PARSE_FAILED" /\ last.id = 1
    /\ bottles[1].loaded /\ bottles[1].currentIpfsHash = CommentCid
    /\ cache[CommentCid].present /\ cache[CommentCid].data = CommentItem
    /\ ledgerPtr[1] = InitCid(1)
    /\ Quiet

=============================================================================
